---- MODULE Spec2Model ----
(***************************************************************************)
(* Model of the Pinterest image scrapers:                                  *)
(*   src/pinterest_img_scraper.py    PinterestImageScraper (query/board)   *)
(*   src/pinterest_scraper.py        PinterestScraper      (basic query)   *)
(*   src/pinterest_board_scraper.py  PinterestBoardScraper (board)         *)
(*                                                                         *)
(* An address is a record [host, dirs, pin, ext]: the text                 *)
(*   host "/" dirs[1] "/" ... "/" dirs[n] "/" "p<pin>." ext                *)
(* so that the test  '/X/' in url  of the code is  X \in Range(dirs).      *)
(***************************************************************************)
EXTENDS Integers, Sequences, FiniteSets, TLC

VARIABLES
    \* constructor arguments of PinterestImageScraper
    is_board, is_ad_search, limit, min_width, min_height, has_credentials,
    \* run state of PinterestImageScraper
    pc, start_collecting, inside_search_results, relevant_image_ids,
    image_urls, pending_text, scroll_i, pins_left,
    \* _download_images / _download_image
    urls_to_download, tasks, downloaded_count,
    \* one fetch-and-verify call of any of the three scrapers
    variant, call

vars == << is_board, is_ad_search, limit, min_width, min_height, has_credentials,
           pc, start_collecting, inside_search_results, relevant_image_ids,
           image_urls, pending_text, scroll_i, pins_left,
           urls_to_download, tasks, downloaded_count, variant, call >>

config == << is_board, is_ad_search, limit, min_width, min_height, has_credentials >>
runstate == << start_collecting, inside_search_results, relevant_image_ids, image_urls,
               pending_text, scroll_i, pins_left >>
finalstate == << urls_to_download, tasks, downloaded_count, variant, call >>

-----------------------------------------------------------------------------
\* Bounds of the model

MaxLimit == 2          \* limit ranges over 0..MaxLimit
ScrollCount == 1       \* scroll_count of the modelled run
MaxPins == 1           \* feed items query_selector_all can return
MaxCands == 2          \* the candidate set holds at most this many candidates
MaxPlanCands == 3      \* candidates handed to the planner when it is run alone
MaxScrollCount == 3    \* scroll_count ranges over 0..MaxScrollCount when _scroll_page is run alone
MaxFeedItems == 4      \* feed items query_selector_all can return when the extraction is run alone

\* Program constants
MicroFloor == 100      \* the absolute small threshold of the micro-thumbnail rule
DefaultScore == 0

\* the values min_width and min_height range over: at and above the micro floor
MinDims == { MicroFloor, MicroFloor + 1 }

Range(s) == { s[i] : i \in 1..Len(s) }

Min(a, b) == IF a <= b THEN a ELSE b

NoCall == [index |-> 0]

-----------------------------------------------------------------------------
\* Addresses

PinHost == "https://i.pinimg.com"
PlainHost == "http://i.pinimg.com"
OtherHost == "https://s.pinimg.com"

Url(h, d, p, e) == [host |-> h, dirs |-> d, pin |-> p, ext |-> e]

\* a candidate is the pair (reference, is_relevant)
UrlOf(c) == c[1]
IsRelevant(c) == c[2]

MicroTiers == {"60x60", "75x75"}
ResolutionPatterns == <<"236x", "474x", "736x", "1200x">>
\* directory names the regular expression \d+x of _convert_to_high_res accepts
SizedDirs == {"236x", "474x", "736x", "1200x", "170x"}

HasDir(url, d) == d \in Range(url.dirs)

IsMicro(url) == \E m \in MicroTiers : HasDir(url, m)

\* str.replace('/tok/', '/originals/') on the directories from position i on:
\* occurrences are replaced left to right without overlap, so the directory
\* right after a replaced one has lost its leading slash and is kept.
RECURSIVE ReplaceFrom(_, _, _, _)
ReplaceFrom(dirs, tok, i, blocked) ==
    IF i > Len(dirs) THEN << >>
    ELSE IF dirs[i] = tok /\ ~blocked
         THEN <<"originals">> \o ReplaceFrom(dirs, tok, i + 1, TRUE)
         ELSE << dirs[i] >> \o ReplaceFrom(dirs, tok, i + 1, FALSE)

\* the first pattern of resolution_patterns that occurs in the address, 0 if none
RECURSIVE FirstPattern(_, _)
FirstPattern(url, k) ==
    IF k > Len(ResolutionPatterns) THEN 0
    ELSE IF HasDir(url, ResolutionPatterns[k]) THEN k
    ELSE FirstPattern(url, k + 1)

IsRasterExt(e) == e \in {"jpg", "jpeg", "png", "webp"}

Rejected == [host |-> "none", dirs |-> << >>, pin |-> 0, ext |-> "none"]

\* mutant: a leading resolution directory is stripped, not replaced
ConvertToHighResStripping(url, minw, minh) ==
    IF Len(url.dirs) >= 1 /\ url.dirs[1] \in Range(ResolutionPatterns)
    THEN [url EXCEPT !.dirs = Tail(url.dirs)]
    ELSE url

\* mutant: a micro-thumbnail address is never refused
ConvertToHighResKeepMicro(url, minw, minh) ==
    IF HasDir(url, "originals") \/ IsMicro(url) THEN url
    ELSE IF FirstPattern(url, 1) # 0
         THEN [url EXCEPT !.dirs =
                  ReplaceFrom(url.dirs, ResolutionPatterns[FirstPattern(url, 1)], 1, FALSE)]
    ELSE url

\* mutant: the resolution directory is replaced by the largest sized one
ConvertToHighResLargest(url, minw, minh) ==
    IF FirstPattern(url, 1) # 0
    THEN [url EXCEPT !.dirs =
             [i \in 1..Len(url.dirs) |->
                 IF url.dirs[i] = ResolutionPatterns[FirstPattern(url, 1)]
                 THEN "1200x" ELSE url.dirs[i]]]
    ELSE url

\* _convert_to_high_res
ConvertToHighRes(url, minw, minh) ==
    IF HasDir(url, "originals") THEN url
    ELSE IF IsMicro(url)
         THEN IF minw > MicroFloor \/ minh > MicroFloor THEN Rejected ELSE url
    ELSE IF FirstPattern(url, 1) # 0
         THEN [url EXCEPT !.dirs =
                  ReplaceFrom(url.dirs, ResolutionPatterns[FirstPattern(url, 1)], 1, FALSE)]
    ELSE IF /\ url.host = PinHost
            /\ Len(url.dirs) >= 1
            /\ url.dirs[1] \in SizedDirs
            /\ IsRasterExt(url.ext)
         THEN [url EXCEPT !.dirs = <<"originals">> \o Tail(url.dirs)]
    ELSE url

\* get_url_priority
GetUrlPriority(url) ==
    IF HasDir(url, "originals") THEN 5
    ELSE IF HasDir(url, "1200x") THEN 4
    ELSE IF HasDir(url, "736x") THEN 3
    ELSE IF HasDir(url, "474x") THEN 2
    ELSE IF HasDir(url, "236x") THEN 1
    ELSE DefaultScore

-----------------------------------------------------------------------------
\* CandidateCollector: PinterestImageScraper._handle_response, lines 385-492

\* the identifiers the page carries
PinIds == {1}

\* the addresses the driven page serves
PageUrls ==
    { Url(PinHost, <<"originals">>, 1, "jpg"),
      Url(PinHost, <<"236x">>, 1, "jpg"),
      Url(PinHost, << >>, 0, "jpg"),
      Url(PinHost, <<"60x60">>, 1, "jpg"),
      Url(PinHost, <<"236x", "icons">>, 0, "jpg"),
      Url(PinHost, <<"originals">>, 1, "gif"),
      Url(OtherHost, <<"ab">>, 1, "jpg") }

\* Observed exchanges.  An image exchange carries its address and status.  A
\* text exchange (document or xhr) carries `hit`: its address holds
\* "search/pins" and a search term, and `ids`: the identifiers the expression
\* "id": "(\d+)" finds in its body when the body holds a search term and a
\* result marker (none when it does not, or when reading the body fails).
ImageResponses ==
    { [rtype |-> "image", status |-> 200, url |-> u, hit |-> FALSE, ids |-> {}] :
        u \in PageUrls }
    \cup { [rtype |-> "image", status |-> 404,
            url |-> Url(PinHost, <<"originals">>, 1, "jpg"), hit |-> FALSE, ids |-> {}] }
TextResponses ==
    { [rtype |-> "document", status |-> 200, url |-> Rejected, hit |-> h, ids |-> {}] :
        h \in BOOLEAN }
    \cup { [rtype |-> "xhr", status |-> 200, url |-> Rejected, hit |-> TRUE, ids |-> i] :
            i \in SUBSET PinIds }
    \cup { [rtype |-> "xhr", status |-> 200, url |-> Rejected, hit |-> FALSE, ids |-> {}] }
Responses == ImageResponses \cup TextResponses

\* pin_id in url: the identifier embedded in the address is pin_id
ContainsId(url, id) == url.pin = id

\* mutant: neither the ad search nor the board request is looked at
ClassifyStrict(url, ad, ids, inside, board) ==
    \/ \E id \in ids : ContainsId(url, id)
    \/ ~inside

\* mutant: an empty identifier set makes every observation relevant
ClassifyLenient(url, ad, ids, inside, board) ==
    \/ ad
    \/ ids = {}
    \/ \E id \in ids : ContainsId(url, id)
    \/ ~inside
    \/ board

\* lines 434-449
Classify(url, ad, ids, inside, board) ==
    \/ ad
    \/ \E id \in ids : ContainsId(url, id)
    \/ ~inside
    \/ board

\* lines 451-454: a non-ad search inside the results drops what matches no known id
DroppedAsUnrelated(url, ad, ids, inside, board) ==
    /\ inside /\ ~board /\ ~ad
    /\ ids # {}
    /\ ~Classify(url, ad, ids, inside, board)

\* lines 462-463
LooksLikeTieredRaster(url) ==
    /\ IsRasterExt(url.ext)
    /\ \/ \E d \in {"originals", "236x", "474x", "736x", "1200x"} : HasDir(url, d)
       \/ url.host \in {PinHost, PlainHost}

\* lines 472-483
StrictSkip == {"icons", "logo", "favicon", "avatar", "profile", "spinner", "loading",
               "error", "following"}
AdSkip == {"spinner", "loading", "error"}
IsUiAsset(url, ad) == \E d \in (IF ad THEN AdSkip ELSE StrictSkip) : HasDir(url, d)

\* mutant: the candidate set is keyed by the reference alone
InsertCandidateKeyed(cands, ref, rel) ==
    IF \E c \in cands : UrlOf(c) = ref THEN cands ELSE cands \cup { <<ref, rel>> }

\* line 492: self.image_urls.add((high_res_url, is_relevant))
InsertCandidate(cands, ref, rel) == cands \cup { <<ref, rel>> }

\* mutant: the micro-thumbnail check of the image branch is left to the normalizer
ObserveImageMicroToNormalizer(cands, url, ad, ids, inside, board, minw, minh) ==
    IF DroppedAsUnrelated(url, ad, ids, inside, board) THEN cands
    ELSE IF ~LooksLikeTieredRaster(url) THEN cands
    ELSE IF ConvertToHighRes(url, minw, minh) = Rejected THEN cands
    ELSE IF IsUiAsset(url, ad) THEN cands
    ELSE InsertCandidate(cands, ConvertToHighRes(url, minw, minh),
                         Classify(url, ad, ids, inside, board))

\* mutant: every inserted candidate is tagged relevant
ObserveImageAllRelevant(cands, url, ad, ids, inside, board, minw, minh) ==
    IF DroppedAsUnrelated(url, ad, ids, inside, board) THEN cands
    ELSE IF IsMicro(url) /\ (minw > MicroFloor \/ minh > MicroFloor) THEN cands
    ELSE IF ~LooksLikeTieredRaster(url) THEN cands
    ELSE IF ConvertToHighRes(url, minw, minh) = Rejected THEN cands
    ELSE IF IsUiAsset(url, ad) THEN cands
    ELSE InsertCandidate(cands, ConvertToHighRes(url, minw, minh), TRUE)

\* the candidate set after the image branch, lines 430-492, saw address url
ObserveImage(cands, url, ad, ids, inside, board, minw, minh) ==
    IF DroppedAsUnrelated(url, ad, ids, inside, board) THEN cands
    ELSE IF IsMicro(url) /\ (minw > MicroFloor \/ minh > MicroFloor) THEN cands
    ELSE IF ~LooksLikeTieredRaster(url) THEN cands
    ELSE IF ConvertToHighRes(url, minw, minh) = Rejected THEN cands
    ELSE IF IsUiAsset(url, ad) THEN cands
    ELSE InsertCandidate(cands, ConvertToHighRes(url, minw, minh),
                         Classify(url, ad, ids, inside, board))

\* the page and its handlers exist from the start of the run until the browser closes
PageOpen == pc \in {"start", "login", "enable", "navigate", "wait_content", "capture",
                    "scroll", "extract", "pins_query", "pins_loop", "search_query",
                    "search_loop", "finalize", "download",
                    "s_loop", "s_jitter", "s_check", "s_ended",
                    "i_choose", "i_search_query", "i_search_top", "i_search_modal",
                    "i_pins_query", "i_pins_top", "i_pins_modal", "i_ended"}

\* mutant: the handler returns only once the set has grown past the ceiling
CeilingReachedLate == limit # 0 /\ Cardinality(image_urls) > limit * 3

\* line 391
CeilingReached == limit # 0 /\ Cardinality(image_urls) >= limit * 3

\* the body of _handle_response up to its return or to its await of
\* response.text(): what it does to the collector's state
RunHandler(r) ==
    IF ~start_collecting \/ CeilingReached
    THEN UNCHANGED << inside_search_results, pending_text, image_urls >>
    ELSE IF r.rtype \in {"document", "xhr"}
    THEN /\ inside_search_results' = (inside_search_results \/ r.hit)
         /\ IF r.hit /\ r.rtype = "xhr" /\ r.ids # {}
            THEN pending_text' = pending_text \cup {r.ids}
            ELSE UNCHANGED pending_text
         /\ UNCHANGED image_urls
    ELSE /\ image_urls' =
               IF r.status = 200
               THEN ObserveImage(image_urls, r.url, is_ad_search, relevant_image_ids,
                                 inside_search_results, is_board, min_width, min_height)
               ELSE image_urls
         /\ UNCHANGED << inside_search_results, pending_text >>

\* a response arrives and its handler runs at once
ObserveResponse(r) ==
    /\ PageOpen
    /\ RunHandler(r)
    /\ UNCHANGED << config, pc, start_collecting, relevant_image_ids, scroll_i, pins_left,
                    urls_to_download, tasks, downloaded_count, variant, call >>

\* the same step in a run whose page serves at most MaxCands candidates
HandleResponse(r) ==
    /\ ObserveResponse(r)
    /\ Cardinality(image_urls') <= MaxCands

\* line 383: a response arrives and asyncio.create_task schedules its handler,
\* which has not run yet; call follows this one task and remembers whether
\* collecting was enabled when the response arrived
CreateHandlerTask(r) ==
    /\ pc \in {"login", "navigate"}     \* the driver is suspended in _login or in goto
    /\ call = NoCall
    /\ call' = [index |-> 1, state |-> "created",
                env |-> [response |-> r, collecting |-> start_collecting]]
    /\ UNCHANGED << config, pc, runstate, urls_to_download, tasks, downloaded_count,
                    variant >>

\* the event loop gives the scheduled handler its first step
StartHandlerTask ==
    /\ PageOpen
    /\ call.index = 1
    /\ call.state = "created"
    /\ RunHandler(call.env.response)
    /\ Cardinality(image_urls') <= MaxCands
    /\ call' = [call EXCEPT !.state = "started"]
    /\ UNCHANGED << config, pc, start_collecting, relevant_image_ids, scroll_i, pins_left,
                    urls_to_download, tasks, downloaded_count, variant >>

\* a handler suspended in response.text() resumes: lines 413-423
ResumeText(ids) ==
    /\ PageOpen
    /\ ids \in pending_text
    /\ pending_text' = pending_text \ {ids}
    /\ relevant_image_ids' = relevant_image_ids \cup ids
    /\ UNCHANGED << config, pc, start_collecting, inside_search_results, image_urls,
                    scroll_i, pins_left, urls_to_download, tasks, downloaded_count,
                    variant, call >>

-----------------------------------------------------------------------------
\* SelectionPlanner: _download_images, lines 761-812

\* the orders in which iterating a Python set can yield its elements
RECURSIVE Perms(_)
Perms(S) ==
    IF S = {} THEN { << >> }
    ELSE UNION { { << x >> \o p : p \in Perms(S \ {x}) } : x \in S }

MapUrl(cs) == [i \in 1..Len(cs) |-> UrlOf(cs[i])]

\* relevant_urls / other_urls of an iteration order all_urls
RelevantUrls(all_urls) == MapUrl(SelectSeq(all_urls, IsRelevant))
NotRelevant(c) == ~IsRelevant(c)
OtherUrls(all_urls) == MapUrl(SelectSeq(all_urls, NotRelevant))

Prefix(s, n) == SubSeq(s, 1, Min(n, Len(s)))

\* mutant: the fill stops one address short of the limit
PrioritizeRelevantShortFill(relevant_urls, other_urls, lim) ==
    IF Len(relevant_urls) >= lim
    THEN relevant_urls
    ELSE relevant_urls \o Prefix(other_urls, lim - Len(relevant_urls) - 1)

\* mutant: the relevant group is not preferred, both groups are always pooled
PrioritizeRelevantPooled(relevant_urls, other_urls, lim) ==
    relevant_urls \o other_urls

\* the non-ad branch, lines 779-787
PrioritizeRelevant(relevant_urls, other_urls, lim) ==
    IF Len(relevant_urls) >= lim
    THEN relevant_urls
    ELSE relevant_urls \o Prefix(other_urls, lim - Len(relevant_urls))

\* sorted(unique_urls, key=get_url_priority, reverse=True): a stable sort
RECURSIVE SortedFrom(_, _)
SortedFrom(urls, score) ==
    LET same(u) == GetUrlPriority(u) = score
    IN  IF score < 0 THEN << >>
        ELSE SelectSeq(urls, same) \o SortedFrom(urls, score - 1)

\* mutant: the pool is left in discovery order
SortByPriorityUnsorted(urls) == urls

SortByPriority(urls) == SortedFrom(urls, 5)

\* mutant: the slice keeps one address more than the limit
TruncateOneMore(sorted_urls, lim) ==
    IF lim # 0 THEN Prefix(sorted_urls, lim + 1) ELSE sorted_urls

\* sorted_urls[:self.limit] if self.limit else sorted_urls
Truncate(sorted_urls, lim) ==
    IF lim # 0 THEN Prefix(sorted_urls, lim) ELSE sorted_urls

\* unique_urls for one iteration order of image_urls and, for an ad search,
\* one iteration order of set(relevant_urls + other_urls)
UniqueUrls(all_urls, set_order, lim, ad) ==
    IF ad THEN set_order
    ELSE PrioritizeRelevant(RelevantUrls(all_urls), OtherUrls(all_urls), lim)

SetOrders(all_urls) == Perms(Range(RelevantUrls(all_urls) \o OtherUrls(all_urls)))

PlanOf(all_urls, set_order, lim, ad) ==
    Truncate(SortByPriority(UniqueUrls(all_urls, set_order, lim, ad)), lim)


\* lines 761-817: plan the downloads and create one task per planned address
DownloadImages ==
    /\ pc = "finalize"
    /\ \E all_urls \in Perms(image_urls) :
       \E set_order \in (IF is_ad_search THEN SetOrders(all_urls) ELSE { << >> }) :
          /\ urls_to_download' = PlanOf(all_urls, set_order, limit, is_ad_search)
          /\ tasks' = [i \in 1..Len(urls_to_download') |-> "pending"]
    /\ pc' = "download"
    /\ UNCHANGED << config, start_collecting, inside_search_results, relevant_image_ids,
                    image_urls, pending_text, scroll_i, pins_left,
                    downloaded_count, variant, call >>

-----------------------------------------------------------------------------
\* FetchVerifier: _download_image
\*
\* An environment fixes what every external step of one call does:
\*   fetch   page.goto / response.body: "raise", "none" (no response),
\*           "status" (a status other than 200), "ok"
\*   ctype   the content-type header: "image" (starts with image/) or "html"
\*   w, h    the pixel dimensions of the retrieved image
\*   mem     Image.open on the bytes in memory: "ok" or "raise"
\*   write   aiofiles open and write: "ok", "raise" (nothing created),
\*           "partial" (raises after the file was created)
\*   disk    Image.open on the stored file: "ok" or "raise"
\*   remove  os.remove: "ok" or "raise"
\*   close   browser.close: "ok" or "raise"

Dims == { MicroFloor - 1, MicroFloor, MicroFloor + 1 }

Envs ==
    [ fetch : {"raise", "none", "status", "ok"}, ctype : {"image", "html"},
      w : Dims, h : Dims, mem : {"ok", "raise"}, write : {"ok", "raise", "partial"},
      disk : {"ok", "raise"}, remove : {"ok", "raise"}, close : {"ok", "raise"} ]

\* what a call leaves behind: the value it returns, whether a file exists at the
\* destination path afterwards, and whether an exception left the call
Outcome(r, f) == [result |-> r, file |-> f, propagated |-> FALSE]

\* mutant: the size test of the combined scraper asks for both floors
TooSmallStrict(w, h, minw, minh) == w < minw \/ h < minh

\* lines 868 and 894: "either width OR height needs to be sufficient"
TooSmall(w, h, minw, minh) == w < minw /\ h < minh

\* mutant: the content type is not looked at
IsImageTypeAny(ctype) == TRUE

\* line 850: content_type.startswith('image/')
IsImageType(ctype) == ctype = "image"

\* PinterestImageScraper._download_image, lines 825-930
ImgDownloadImage(e, minw, minh) ==
    IF e.fetch = "raise" THEN Outcome(TRUE, FALSE)             \* 920-926
    ELSE IF e.fetch \in {"none", "status"} THEN Outcome(FALSE, FALSE)   \* 843-846
    ELSE IF ~IsImageType(e.ctype) THEN Outcome(FALSE, FALSE)   \* 849-853
    ELSE IF e.mem = "ok" /\ TooSmall(e.w, e.h, minw, minh)
         THEN Outcome(FALSE, FALSE)                            \* 868-871
    ELSE IF e.write = "raise" THEN Outcome(TRUE, FALSE)        \* 878, 920-926
    ELSE IF e.write = "partial" THEN Outcome(TRUE, TRUE)       \* 879, 920-926
    ELSE IF e.disk = "raise" THEN Outcome(TRUE, TRUE)          \* 913-918, 926
    ELSE IF TooSmall(e.w, e.h, minw, minh)
         THEN Outcome(FALSE, e.remove = "raise")               \* 894-908
    ELSE Outcome(TRUE, TRUE)                                   \* 911

\* the size test of the basic and the board scraper
BasicTooSmall(w, h, minw, minh) == w < minw \/ h < minh

\* PinterestScraper._download_image, lines 148-187, and
\* PinterestBoardScraper._download_image, lines 204-243 (the same code)
BasicDownloadImage(e, minw, minh) ==
    IF e.fetch = "raise" THEN Outcome(FALSE, FALSE)            \* 185-187
    ELSE IF e.fetch \in {"none", "status"} THEN Outcome(FALSE, FALSE)   \* 159-160
    ELSE IF e.write = "raise" THEN Outcome(FALSE, FALSE)       \* 169, 185-187
    ELSE IF e.write = "partial" THEN Outcome(FALSE, TRUE)      \* 170, 185-187
    ELSE IF e.disk = "raise" THEN Outcome(FALSE, TRUE)         \* 179-180
    ELSE IF BasicTooSmall(e.w, e.h, minw, minh)
         THEN Outcome(FALSE, e.remove = "raise")               \* 176-180
    ELSE IF e.close = "raise" THEN Outcome(FALSE, TRUE)        \* 182, 185-187
    ELSE Outcome(TRUE, TRUE)                                   \* 183

Variants == {"img", "basic", "board"}

DownloadImageOf(v, e, minw, minh) ==
    IF v = "img" THEN ImgDownloadImage(e, minw, minh)
    ELSE BasicDownloadImage(e, minw, minh)

\* one call of _download_image of the scraper `variant` in the environment call.env
VerifyAndStore ==
    /\ pc = "verify"
    /\ call.state = "called"
    /\ call' = [call EXCEPT !.state = "returned",
                            !.out = DownloadImageOf(variant, call.env, min_width, min_height)]
    /\ pc' = "verified"
    /\ UNCHANGED << config, start_collecting, inside_search_results, relevant_image_ids,
                    image_urls, pending_text, scroll_i, pins_left,
                    urls_to_download, tasks, downloaded_count, variant >>

InitVerify ==
    /\ is_board = FALSE
    /\ is_ad_search = FALSE
    /\ limit = 1
    /\ min_width \in MinDims
    /\ min_height \in MinDims
    /\ has_credentials = FALSE
    /\ pc = "verify"
    /\ start_collecting = TRUE
    /\ inside_search_results = FALSE
    /\ relevant_image_ids = {}
    /\ image_urls = {}
    /\ pending_text = {}
    /\ scroll_i = 0
    /\ pins_left = 0
    /\ urls_to_download = << >>
    /\ tasks = << >>
    /\ downloaded_count = 0
    /\ variant \in Variants
    /\ call \in [ index : {1}, state : {"called"}, env : Envs, out : {Outcome(FALSE, FALSE)} ]

\* the loop of _download_images takes the result of the call: lines 821-823 of
\* the combined scraper, 144-146 of the basic one, 200-202 of the board one
TakeResult ==
    /\ pc = "verified"
    /\ downloaded_count' = IF call.out.result THEN downloaded_count + 1
                           ELSE downloaded_count
    /\ pc' = "counted"
    /\ UNCHANGED << config, runstate, urls_to_download, tasks, variant, call >>

NextVerify == VerifyAndStore \/ TakeResult

SpecVerify == InitVerify /\ [][NextVerify]_vars

-----------------------------------------------------------------------------
\* The counting loop of _download_images, lines 819-823, over the tasks of
\* lines 814-817

\* what _download_image can return for given minimum dimensions
ImgOutcomes ==
    [ m \in MinDims \X MinDims |-> { ImgDownloadImage(e, m[1], m[2]) : e \in Envs } ]

\* task i completes and the as_completed loop takes its result
CompleteTask(i) ==
    /\ pc = "download"
    /\ i \in 1..Len(tasks)
    /\ tasks[i] = "pending"
    /\ \E out \in ImgOutcomes[<<min_width, min_height>>] :
          /\ tasks' = [tasks EXCEPT ![i] = IF out.result THEN "true" ELSE "false"]
          /\ downloaded_count' = IF out.result THEN downloaded_count + 1
                                 ELSE downloaded_count
    /\ UNCHANGED << config, pc, start_collecting, inside_search_results,
                    relevant_image_ids, image_urls, pending_text, scroll_i, pins_left,
                    urls_to_download, variant, call >>

\* mutant: the candidate set is cleared when the downloads are done
DownloadsDoneClearing ==
    /\ pc = "download"
    /\ \A i \in 1..Len(tasks) : tasks[i] # "pending"
    /\ pc' = "done"
    /\ urls_to_download' = << >>
    /\ tasks' = << >>
    /\ image_urls' = {}
    /\ UNCHANGED << config, start_collecting, inside_search_results, relevant_image_ids,
                    pending_text, scroll_i, pins_left, downloaded_count, variant, call >>

\* the loop ends, _download_images returns, the browser closes and
\* start_scraping returns downloaded_count: lines 223-227
DownloadsDone ==
    /\ pc = "download"
    /\ \A i \in 1..Len(tasks) : tasks[i] # "pending"
    /\ pc' = "done"
    /\ urls_to_download' = << >>
    /\ tasks' = << >>
    /\ UNCHANGED << config, runstate, downloaded_count, variant, call >>

-----------------------------------------------------------------------------
\* HarvestOrchestrator: PinterestImageScraper.start_scraping, lines 78-227

\* mutant: the login is attempted whether or not credentials were given
StartScrapingAlwaysLogin ==
    /\ pc = "start"
    /\ pc' = "login"
    /\ UNCHANGED << config, runstate, finalstate >>

\* lines 112-115
StartScraping ==
    /\ pc = "start"
    /\ pc' = IF has_credentials THEN "login" ELSE "enable"
    /\ UNCHANGED << config, runstate, finalstate >>

\* how a call of _login can go: page.goto raises (233), the wait for the email
\* or the password field times out (238, 251, handled at 312), no submit button
\* appears (275-284), no profile button appears (294-307), some other step
\* raises (318), or the profile button appears (296-298)
LoginOutcomes == {"goto_raised", "no_email_field", "no_password_field", "no_submit_button",
                  "unverified", "raised", "logged_in"}

\* mutant: an exception of _login leaves start_scraping
AfterLoginRaising(outcome) ==
    IF outcome \in {"goto_raised", "raised"} THEN "done" ELSE "enable"

\* every outcome is a return to start_scraping, line 115: True at 298, False at
\* 248, 261 and 322, the handlers of 312 and 318 letting no exception out
AfterLogin(outcome) == "enable"

\* _login, lines 229-322
Login ==
    /\ pc = "login"
    /\ \E outcome \in LoginOutcomes : pc' = AfterLogin(outcome)
    /\ UNCHANGED << config, runstate, finalstate >>

\* lines 126-132
EnableCollecting ==
    /\ pc = "enable"
    /\ image_urls' = {}
    /\ start_collecting' = TRUE
    /\ pc' = "navigate"
    /\ UNCHANGED << config, inside_search_results, relevant_image_ids, pending_text,
                    scroll_i, pins_left, finalstate >>

\* lines 135-138: page.goto returns, or raises and ends the run (lines 214-227)
Navigate ==
    /\ pc = "navigate"
    /\ \/ pc' = "wait_content"
       \/ pc' = "done"
    /\ UNCHANGED << config, runstate, finalstate >>

\* lines 140-192: a search selector is found, or only a general one, or none
\* (and then the debug screenshot may raise)
WaitContent ==
    /\ pc = "wait_content"
    /\ \/ /\ inside_search_results' = TRUE
          /\ pc' = "capture"
       \/ /\ UNCHANGED inside_search_results
          /\ pc' = "capture"
       \/ /\ UNCHANGED inside_search_results
          /\ pc' = "done"
    /\ UNCHANGED << config, start_collecting, relevant_image_ids, image_urls,
                    pending_text, scroll_i, pins_left, finalstate >>

\* mutant: the capture assigns the identifier set instead of adding to it
CaptureSearchResultIdsAssigning ==
    /\ pc = "capture"
    /\ IF inside_search_results /\ ~is_board
       THEN \E found \in SUBSET PinIds : relevant_image_ids' = found
       ELSE UNCHANGED relevant_image_ids
    /\ pc' = "scroll"
    /\ UNCHANGED << config, start_collecting, inside_search_results, image_urls,
                    pending_text, scroll_i, pins_left, finalstate >>

\* lines 194-196 and _capture_search_result_ids, lines 932-985
CaptureSearchResultIds ==
    /\ pc = "capture"
    /\ IF inside_search_results /\ ~is_board
       THEN \E found \in SUBSET PinIds :
               relevant_image_ids' = relevant_image_ids \cup found
       ELSE UNCHANGED relevant_image_ids
    /\ pc' = "scroll"
    /\ UNCHANGED << config, start_collecting, inside_search_results, image_urls,
                    pending_text, scroll_i, pins_left, finalstate >>

EnoughFor(k) == limit # 0 /\ Cardinality(image_urls) >= limit * k

\* mutant: the scroll loop starts over when its last iteration ends
ScrollPageRestarting ==
    /\ pc = "scroll"
    /\ scroll_i' = IF scroll_i < ScrollCount THEN scroll_i + 1 ELSE 0
    /\ pc' = "scroll"
    /\ UNCHANGED << config, start_collecting, inside_search_results, relevant_image_ids,
                    image_urls, pending_text, pins_left, finalstate >>

\* _scroll_page, lines 526-545: one iteration, seen at its limit check
ScrollPage ==
    /\ pc = "scroll"
    /\ \/ /\ scroll_i < ScrollCount
          /\ scroll_i' = IF EnoughFor(1) THEN 0 ELSE scroll_i + 1
          /\ pc' = IF EnoughFor(1) THEN "extract" ELSE "scroll"
       \/ /\ scroll_i < ScrollCount
          /\ scroll_i' = 0
          /\ pc' = "done"
       \/ /\ scroll_i = ScrollCount
          /\ scroll_i' = 0
          /\ pc' = "extract"
    /\ UNCHANGED << config, start_collecting, inside_search_results, relevant_image_ids,
                    image_urls, pending_text, pins_left, finalstate >>

\* lines 202-208
ChooseExtraction ==
    /\ pc = "extract"
    /\ pc' = IF Cardinality(image_urls) < limit * 2
             THEN (IF is_board THEN "pins_query" ELSE "search_query")
             ELSE "finalize"
    /\ UNCHANGED << config, runstate, finalstate >>

\* _extract_images_from_pins, lines 549-577
QueryPins ==
    /\ pc = "pins_query"
    /\ \E n \in 0..MaxPins :
          /\ pins_left' = Min(n, limit * 2)
          /\ pc' = IF n = 0 THEN "finalize" ELSE "pins_loop"
    /\ UNCHANGED << config, start_collecting, inside_search_results, relevant_image_ids,
                    image_urls, pending_text, scroll_i, finalstate >>

\* _extract_images_from_pins, lines 580-634: one feed item
ProcessPin ==
    /\ pc = "pins_loop"
    /\ \/ /\ pins_left > 0          \* opened and closed: lines 610-625
          /\ pins_left' = IF EnoughFor(1) THEN 0 ELSE pins_left - 1
          /\ pc' = IF EnoughFor(1) THEN "finalize" ELSE "pins_loop"
       \/ /\ pins_left > 0          \* no detail view, or an error: 603-608, 627-634
          /\ pins_left' = pins_left - 1
          /\ pc' = "pins_loop"
       \/ /\ pins_left = 0
          /\ UNCHANGED pins_left
          /\ pc' = "finalize"
    /\ UNCHANGED << config, start_collecting, inside_search_results, relevant_image_ids,
                    image_urls, pending_text, scroll_i, finalstate >>

\* _extract_images_from_search_results, lines 641-673
QuerySearchResults ==
    /\ pc = "search_query"
    /\ \E n \in 0..MaxPins :
          /\ pins_left' = Min(n, limit * 3)
          /\ pc' = IF n = 0 THEN "pins_query" ELSE "search_loop"
    /\ UNCHANGED << config, start_collecting, inside_search_results, relevant_image_ids,
                    image_urls, pending_text, scroll_i, finalstate >>

\* _extract_images_from_search_results, lines 676-754: one feed item
ProcessSearchResult ==
    /\ pc = "search_loop"
    /\ \/ /\ pins_left > 0 /\ ~EnoughFor(2)     \* opened: lines 693-745
          /\ \E found \in SUBSET PinIds :
                /\ Cardinality(found) <= 1
                /\ relevant_image_ids' = relevant_image_ids \cup found
          /\ pins_left' = pins_left - 1
          /\ pc' = "search_loop"
       \/ /\ pins_left > 0 /\ EnoughFor(2)      \* lines 678-679
          /\ pins_left' = 0
          /\ UNCHANGED relevant_image_ids
          /\ pc' = "finalize"
       \/ /\ pins_left = 0
          /\ UNCHANGED << relevant_image_ids, pins_left >>
          /\ pc' = "finalize"
    /\ UNCHANGED << config, start_collecting, inside_search_results,
                    image_urls, pending_text, scroll_i, finalstate >>

Init ==
    /\ is_board \in BOOLEAN
    /\ is_ad_search \in BOOLEAN
    /\ limit \in 0..MaxLimit
    /\ min_width = MicroFloor + 1    \* above the micro floor, as the default 800 is
    /\ min_height = min_width
    /\ has_credentials \in BOOLEAN
    /\ pc = "start"
    /\ start_collecting = FALSE
    /\ inside_search_results = FALSE
    /\ relevant_image_ids = {}
    /\ image_urls = {}
    /\ pending_text = {}
    /\ scroll_i = 0
    /\ pins_left = 0
    /\ urls_to_download = << >>
    /\ tasks = << >>
    /\ downloaded_count = 0
    /\ variant = "img"
    /\ call = NoCall

Next ==
    \/ \E r \in Responses : HandleResponse(r)
    \/ \E ids \in SUBSET PinIds : ResumeText(ids)
    \/ StartScraping
    \/ Login
    \/ EnableCollecting
    \/ Navigate
    \/ WaitContent
    \/ CaptureSearchResultIds
    \/ ScrollPage
    \/ ChooseExtraction
    \/ QueryPins
    \/ ProcessPin
    \/ QuerySearchResults
    \/ ProcessSearchResult
    \/ DownloadImages
    \/ \E i \in 1..Len(tasks) : CompleteTask(i)
    \/ DownloadsDone

Spec == Init /\ [][Next]_vars

\* the steps of the coroutine start_scraping: each of its awaits returns, raises
\* or times out, so the coroutine is always resumed
Driver ==
    \/ StartScraping
    \/ Login
    \/ EnableCollecting
    \/ Navigate
    \/ WaitContent
    \/ CaptureSearchResultIds
    \/ ScrollPage
    \/ ChooseExtraction
    \/ QueryPins
    \/ ProcessPin
    \/ QuerySearchResults
    \/ ProcessSearchResult
    \/ DownloadImages
    \/ \E i \in 1..Len(tasks) : CompleteTask(i)
    \/ DownloadsDone

\* a run whose page answers with one image address and one identifier-bearing
\* data response, as often and whenever it likes
LoadResponses ==
    { r \in Responses :
        \/ r.rtype = "image" /\ r.status = 200
              /\ r.url = Url(PinHost, <<"originals">>, 1, "jpg")
        \/ r.rtype = "xhr" /\ r.hit /\ r.ids = PinIds }

NextFair ==
    \/ \E r \in LoadResponses : HandleResponse(r)
    \/ \E ids \in SUBSET PinIds : ResumeText(ids)
    \/ Driver

SpecFair == Init /\ [][NextFair]_vars /\ WF_vars(Driver)

\* the start of a run up to the navigation, with one handler task followed from
\* its creation to its first step
NextEnable ==
    \/ \E r \in Responses : CreateHandlerTask(r)
    \/ StartHandlerTask
    \/ \E ids \in SUBSET PinIds : ResumeText(ids)
    \/ StartScraping
    \/ Login
    \/ EnableCollecting
    \/ Navigate

SpecEnable == Init /\ [][NextEnable]_vars

-----------------------------------------------------------------------------
\* Planner inputs: the references the collector can hold for given minimum
\* dimensions are the normalised forms of observable addresses.

TierGrammar ==
    { Url(PinHost, d, p, "jpg") :
        d \in { <<"originals">>, <<"1200x">>, <<"736x">>, <<"236x">>, << >>,
                <<"60x60">>, <<"60x60", "1200x">>, <<"60x60", "736x">>,
                <<"60x60", "236x">> },
        p \in {1} }
    \cup { Url(PinHost, <<"originals">>, 0, "jpg") }

References(minw, minh) ==
    { ConvertToHighRes(u, minw, minh) : u \in TierGrammar } \ { Rejected }

\* an ad search and a board request tag every candidate relevant
Collectable(cands, ad, board) == (ad \/ board) => \A c \in cands : IsRelevant(c)

InitPlan ==
    /\ is_board \in BOOLEAN
    /\ is_ad_search \in BOOLEAN
    /\ limit \in 0..MaxLimit
    /\ min_width \in MinDims
    /\ min_height \in MinDims
    /\ has_credentials = FALSE
    /\ pc = "finalize"
    /\ start_collecting = TRUE
    /\ inside_search_results = TRUE
    /\ relevant_image_ids = {}
    /\ image_urls \in { S \in SUBSET (References(min_width, min_height) \X BOOLEAN) :
                          /\ Cardinality(S) <= MaxPlanCands
                          /\ Collectable(S, is_ad_search, is_board) }
    /\ pending_text = {}
    /\ scroll_i = 0
    /\ pins_left = 0
    /\ urls_to_download = << >>
    /\ tasks = << >>
    /\ downloaded_count = 0
    /\ variant = "img"
    /\ call = NoCall

NextPlan == DownloadImages

SpecPlan == InitPlan /\ [][NextPlan]_vars

-----------------------------------------------------------------------------
\* The classifier and the normalizer applied to one observed address

\* directory lists of the tier grammar: original, micro, intermediate, generic
\* sized folder, none, and combinations of two of them
TierDirs ==
    { <<"originals">>, <<"60x60">>, <<"75x75">>, <<"236x">>, <<"474x">>, <<"736x">>,
      <<"1200x">>, <<"170x">>, << >>, <<"ab", "236x">>, <<"236x", "ab">>,
      <<"originals", "60x60">>, <<"75x75", "originals">>, <<"60x60", "236x">>,
      <<"236x", "736x">>, <<"236x", "236x">>, <<"170x", "236x">>,
      <<"236x", "ab", "236x">> }

Addresses ==
    { Url(h, d, p, "jpg") : h \in {PinHost, PlainHost}, d \in TierDirs, p \in {0, 1} }
    \cup { Url(PinHost, <<"170x">>, 1, "gif"), Url(OtherHost, <<"736x">>, 1, "png"),
           Url(PinHost, <<"236x", "icons">>, 0, "jpg") }

NoResult == [relevant |-> FALSE, high_res |-> Rejected, twice |-> Rejected,
             again |-> Rejected]

InitObserve ==
    /\ is_board \in BOOLEAN
    /\ is_ad_search \in BOOLEAN
    /\ limit = 1
    /\ min_width \in MinDims
    /\ min_height \in MinDims
    /\ has_credentials = FALSE
    /\ pc = "observe"
    /\ start_collecting = TRUE
    /\ inside_search_results \in BOOLEAN
    /\ relevant_image_ids \in SUBSET PinIds
    /\ image_urls = {}
    /\ pending_text = {}
    /\ scroll_i = 0
    /\ pins_left = 0
    /\ urls_to_download = << >>
    /\ tasks = << >>
    /\ downloaded_count = 0
    /\ variant = "img"
    /\ call \in [ index : {1}, state : {"called"}, env : [url : Addresses],
                   out : {NoResult} ]

\* lines 433-449: the relevance the image branch gives the observed address
ClassifyImage ==
    /\ pc = "observe"
    /\ call' = [call EXCEPT !.out.relevant =
                   Classify(call.env.url, is_ad_search, relevant_image_ids,
                            inside_search_results, is_board)]
    /\ pc' = "classified"
    /\ UNCHANGED << config, runstate, urls_to_download, tasks, downloaded_count, variant >>

\* mutant: the normalizer remembers the address it returns in the candidate set
ConvertAddressRemembering ==
    /\ pc = "classified"
    /\ call' = [call EXCEPT !.out.high_res =
                   ConvertToHighRes(call.env.url, min_width, min_height)]
    /\ image_urls' = image_urls \cup { << call'.out.high_res, FALSE >> }
    /\ pc' = "converted"
    /\ UNCHANGED << config, start_collecting, inside_search_results, relevant_image_ids,
                    pending_text, scroll_i, pins_left, urls_to_download, tasks,
                    downloaded_count, variant >>

\* line 465: high_res_url = self._convert_to_high_res(url)
ConvertAddress ==
    /\ pc = "classified"
    /\ call' = [call EXCEPT !.out.high_res =
                   ConvertToHighRes(call.env.url, min_width, min_height)]
    /\ pc' = "converted"
    /\ UNCHANGED << config, runstate, urls_to_download, tasks, downloaded_count, variant >>

\* _convert_to_high_res applied to an address it returned
ConvertAgain ==
    /\ pc = "converted"
    /\ call.out.high_res # Rejected
    /\ call' = [call EXCEPT !.out.twice =
                   ConvertToHighRes(call.out.high_res, min_width, min_height)]
    /\ pc' = "converted_twice"
    /\ UNCHANGED << config, runstate, urls_to_download, tasks, downloaded_count, variant >>

\* lines 451-492: the rest of the image branch for the observed address
InsertObserved ==
    /\ pc = "converted"
    /\ image_urls' = ObserveImage(image_urls, call.env.url, is_ad_search, relevant_image_ids,
                                  inside_search_results, is_board, min_width, min_height)
    /\ pc' = "inserted"
    /\ UNCHANGED << config, start_collecting, inside_search_results, relevant_image_ids,
                    pending_text, scroll_i, pins_left, finalstate >>

\* _convert_to_high_res called once more on the observed address, after the
\* image branch or another call of the normalizer has run
ConvertSame ==
    /\ pc \in {"inserted", "converted_twice"}
    /\ call' = [call EXCEPT !.out.again =
                   ConvertToHighRes(call.env.url, min_width, min_height)]
    /\ pc' = "reconverted"
    /\ UNCHANGED << config, runstate, urls_to_download, tasks, downloaded_count, variant >>

NextObserve ==
    ClassifyImage \/ ConvertAddress \/ ConvertAgain \/ InsertObserved \/ ConvertSame

SpecObserve == InitObserve /\ [][NextObserve]_vars

-----------------------------------------------------------------------------
\* The collector alone: collecting is enabled, the driver is suspended in the
\* scroll loop, and the page's exchanges are handled in any order

\* the addresses the page serves: four that give four distinct references, one
\* that normalises to a reference already among them, and two that are skipped
CollectUrls ==
    { Url(PinHost, <<"originals">>, 1, "jpg"),
      Url(PinHost, <<"originals">>, 0, "jpg"),
      Url(PinHost, <<"ab">>, 1, "jpg"),
      Url(PinHost, <<"ab">>, 0, "jpg"),
      Url(PinHost, <<"736x">>, 1, "jpg"),
      Url(PinHost, <<"60x60">>, 1, "jpg"),
      Url(PinHost, <<"236x", "icons">>, 0, "jpg") }

CollectResponses ==
    { [rtype |-> "image", status |-> 200, url |-> u, hit |-> FALSE, ids |-> {}] :
        u \in CollectUrls }
    \cup { r \in ImageResponses : r.status # 200 }
    \cup TextResponses

InitCollect ==
    /\ is_board \in BOOLEAN
    /\ is_ad_search \in BOOLEAN
    /\ limit \in 1..MaxLimit
    /\ min_width = MicroFloor + 1
    /\ min_height = min_width
    /\ has_credentials = FALSE
    /\ pc = "scroll"
    /\ start_collecting = TRUE
    /\ inside_search_results = FALSE
    /\ relevant_image_ids = {}
    /\ image_urls = {}
    /\ pending_text = {}
    /\ scroll_i = 0
    /\ pins_left = 0
    /\ urls_to_download = << >>
    /\ tasks = << >>
    /\ downloaded_count = 0
    /\ variant = "img"
    /\ call = NoCall

NextCollect ==
    \/ \E r \in CollectResponses : ObserveResponse(r)
    \/ \E ids \in SUBSET PinIds : ResumeText(ids)

SpecCollect == InitCollect /\ [][NextCollect]_vars

-----------------------------------------------------------------------------
\* The basic query scraper (PinterestScraper) and the board scraper
\* (PinterestBoardScraper).  Their candidate set holds plain addresses.

\* the addresses of the image exchanges their page serves
BasicUrls ==
    { Url(PinHost, <<"originals">>, 1, "jpg"),
      Url(PinHost, <<"originals">>, 0, "png"),
      Url(PinHost, <<"736x">>, 1, "jpg"),
      Url(PinHost, <<"originals">>, 1, "gif") }

\* a data exchange carries the (address, width, height) triples the expression
\* of lines 111 / 118 finds in its body, or cannot be read
MetaEntry(u, w, h) == [url |-> u, width |-> w, height |-> h]

BasicBodies ==
    { { MetaEntry(Url(PinHost, <<"60x60", "icons">>, 0, "jpg"), MicroFloor + 1, MicroFloor + 1),
        MetaEntry(Url(PinHost, <<"originals">>, 0, "png"), MicroFloor + 1, MicroFloor - 1) } }

BasicResponses ==
    { [rtype |-> "image", status |-> st, url |-> u, body |-> {}, readable |-> TRUE] :
        st \in {200, 404}, u \in BasicUrls }
    \cup { [rtype |-> "xhr", status |-> 200, url |-> Rejected, body |-> b, readable |-> rd] :
             b \in BasicBodies, rd \in BOOLEAN }

\* mutant: one stated dimension at its minimum is enough
MetadataAdmitsEither(w, h, minw, minh) == w >= minw \/ h >= minh

\* lines 117 / 124: width >= self.min_width and height >= self.min_height
MetadataAdmits(w, h, minw, minh) == w >= minw /\ h >= minh

\* inside a JSON body the slashes of an address are escaped: https:\/\/...
EscapedHost == "https:\\/\\/i.pinimg.com"

\* lines 118 / 125: url.replace("\\", "")
Unescape(url) == IF url.host = EscapedHost THEN [url EXCEPT !.host = PinHost] ELSE url

\* the addresses lines 112-118 / 119-125 add for a body
AdmittedFrom(body, minw, minh) ==
    { Unescape(e.url) :
        e \in { x \in body : MetadataAdmits(x.width, x.height, minw, minh) } }

\* lines 102-103 / 109-110
IsOriginalRaster(url) == url.ext \in {"jpg", "jpeg", "png"} /\ HasDir(url, "originals")

BasicPageOpen == pc \in {"b_navigate", "b_wait", "b_scroll", "b_pins_query",
                         "b_pins_loop", "b_finalize", "b_download",
                         "s_loop", "s_jitter", "s_check", "s_ended",
                    "i_choose", "i_search_query", "i_search_top", "i_search_modal",
                    "i_pins_query", "i_pins_top", "i_pins_modal", "i_ended",
                         "m_read"}

\* _handle_response of the two scrapers up to its return or its await of
\* response.text(): lines 93-108 / 100-115
BasicHandleResponse(r) ==
    /\ BasicPageOpen
    /\ IF limit # 0 /\ Cardinality(image_urls) >= limit
       THEN UNCHANGED << image_urls, pending_text >>
       ELSE IF r.rtype = "image"
       THEN /\ image_urls' = IF r.status = 200 /\ IsOriginalRaster(r.url)
                             THEN image_urls \cup { r.url } ELSE image_urls
            /\ UNCHANGED pending_text
       ELSE /\ pending_text' = pending_text \cup { [body |-> r.body, readable |-> r.readable] }
            /\ UNCHANGED image_urls
    /\ UNCHANGED << config, pc, start_collecting, inside_search_results, relevant_image_ids,
                    scroll_i, pins_left, finalstate >>

\* the handler resumes with the body, or with the error of reading it:
\* lines 109-120 / 116-127
BasicResumeText(t) ==
    /\ BasicPageOpen
    /\ t \in pending_text
    /\ pending_text' = pending_text \ { t }
    /\ image_urls' = IF t.readable
                     THEN image_urls \cup AdmittedFrom(t.body, min_width, min_height)
                     ELSE image_urls
    /\ UNCHANGED << config, pc, start_collecting, inside_search_results, relevant_image_ids,
                    scroll_i, pins_left, finalstate >>

\* page.goto returns, or raises and ends the run: lines 69 / 70
BasicNavigate ==
    /\ pc = "b_navigate"
    /\ \/ pc' = IF variant = "board" THEN "b_wait" ELSE "b_scroll"
       \/ pc' = "done"
    /\ UNCHANGED << config, runstate, finalstate >>

\* board scraper line 73: the pin grid appears, or the wait times out and the
\* exception reaches the handler of line 86
BoardWaitForGrid ==
    /\ pc = "b_wait"
    /\ \/ pc' = "b_scroll"
       \/ pc' = "done"
    /\ UNCHANGED << config, runstate, finalstate >>

BasicAfterScroll == IF variant = "board" THEN "b_pins_query" ELSE "b_finalize"

\* _scroll_page, lines 122-130 / 129-137: one iteration, seen at its limit check
BasicScrollPage ==
    /\ pc = "b_scroll"
    /\ \/ /\ scroll_i < ScrollCount
          /\ scroll_i' = IF EnoughFor(1) THEN 0 ELSE scroll_i + 1
          /\ pc' = IF EnoughFor(1) THEN BasicAfterScroll ELSE "b_scroll"
       \/ /\ scroll_i < ScrollCount
          /\ scroll_i' = 0
          /\ pc' = "done"
       \/ /\ scroll_i = ScrollCount
          /\ scroll_i' = 0
          /\ pc' = BasicAfterScroll
    /\ UNCHANGED << config, start_collecting, inside_search_results, relevant_image_ids,
                    image_urls, pending_text, pins_left, finalstate >>

\* board scraper lines 141-148
BoardQueryPins ==
    /\ pc = "b_pins_query"
    /\ \E n \in 0..MaxPins :
          /\ pins_left' = Min(n, limit * 2)
          /\ pc' = "b_pins_loop"
    /\ UNCHANGED << config, start_collecting, inside_search_results, relevant_image_ids,
                    image_urls, pending_text, scroll_i, finalstate >>

\* board scraper lines 151-183: one feed item
BoardProcessPin ==
    /\ pc = "b_pins_loop"
    /\ \/ /\ pins_left > 0          \* opened and closed: lines 154-174
          /\ pins_left' = IF EnoughFor(1) THEN 0 ELSE pins_left - 1
          /\ pc' = IF EnoughFor(1) THEN "b_finalize" ELSE "b_pins_loop"
       \/ /\ pins_left > 0          \* the detail view wait times out: 157, 176-183
          /\ pins_left' = pins_left - 1
          /\ pc' = "b_pins_loop"
       \/ /\ pins_left = 0
          /\ UNCHANGED pins_left
          /\ pc' = "b_finalize"
    /\ UNCHANGED << config, start_collecting, inside_search_results, relevant_image_ids,
                    image_urls, pending_text, scroll_i, finalstate >>

\* _download_images, lines 132-141 / 188-197
BasicDownloadImages ==
    /\ pc = "b_finalize"
    /\ \E all_urls \in Perms(image_urls) :
          /\ urls_to_download' = Truncate(all_urls, limit)
          /\ tasks' = [i \in 1..Len(urls_to_download') |-> "pending"]
    /\ pc' = "b_download"
    /\ UNCHANGED << config, runstate, downloaded_count, variant, call >>

BasicOutcomes ==
    [ m \in MinDims \X MinDims |-> { BasicDownloadImage(e, m[1], m[2]) : e \in Envs } ]

\* lines 143-146 / 199-202
BasicCompleteTask(i) ==
    /\ pc = "b_download"
    /\ i \in 1..Len(tasks)
    /\ tasks[i] = "pending"
    /\ \E out \in BasicOutcomes[<<min_width, min_height>>] :
          /\ tasks' = [tasks EXCEPT ![i] = IF out.result THEN "true" ELSE "false"]
          /\ downloaded_count' = IF out.result THEN downloaded_count + 1
                                 ELSE downloaded_count
    /\ UNCHANGED << config, pc, runstate, urls_to_download, variant, call >>

\* lines 79-85 / 86-92
BasicDownloadsDone ==
    /\ pc = "b_download"
    /\ \A i \in 1..Len(tasks) : tasks[i] # "pending"
    /\ pc' = "done"
    /\ urls_to_download' = << >>
    /\ tasks' = << >>
    /\ UNCHANGED << config, runstate, downloaded_count, variant, call >>

InitBasic ==
    /\ variant \in {"basic", "board"}
    /\ is_board = (variant = "board")
    /\ is_ad_search = FALSE
    /\ limit \in 0..MaxLimit
    /\ min_width = MicroFloor + 1
    /\ min_height = min_width
    /\ has_credentials = FALSE
    /\ pc = "b_navigate"
    /\ start_collecting = TRUE
    /\ inside_search_results = FALSE
    /\ relevant_image_ids = {}
    /\ image_urls = {}
    /\ pending_text = {}
    /\ scroll_i = 0
    /\ pins_left = 0
    /\ urls_to_download = << >>
    /\ tasks = << >>
    /\ downloaded_count = 0
    /\ call = NoCall

NextBasic ==
    \/ \E r \in BasicResponses : BasicHandleResponse(r)
    \/ \E t \in pending_text : BasicResumeText(t)
    \/ BasicNavigate
    \/ BoardWaitForGrid
    \/ BasicScrollPage
    \/ BoardQueryPins
    \/ BoardProcessPin
    \/ BasicDownloadImages
    \/ \E i \in 1..Len(tasks) : BasicCompleteTask(i)
    \/ BasicDownloadsDone

SpecBasic == InitBasic /\ [][NextBasic]_vars

-----------------------------------------------------------------------------
\* _scroll_page of the three scrapers, statement by statement.  call.index is
\* the loop variable i, call.env.scroll_count the constructor argument, and
\* call.out logs the iterations that scrolled to the bottom and the ones that
\* made the secondary scroll.

\* mutant: the secondary scroll is made in the iterations with even index
JitterInEven(v, i) == v = "img" /\ i % 2 = 0

\* combined scraper line 534: if i % 2 == 1; the other two scrapers have no
\* secondary scroll
JitterIn(v, i) == v = "img" /\ i % 2 = 1

\* lines 541 / 129 / 136: if self.limit and len(self.image_urls) >= self.limit
ScrollBreaks(lim, n) == lim # 0 /\ n >= lim

\* for i in range(self.scroll_count) and the scroll to the bottom: 528-531
ScrollToBottom ==
    /\ pc = "s_loop"
    /\ \/ /\ call.index < call.env.scroll_count
          /\ call' = [call EXCEPT !.out.bottoms = @ \cup { call.index }]
          /\ pc' = "s_jitter"
       \/ /\ call.index < call.env.scroll_count      \* page.evaluate raises
          /\ UNCHANGED call
          /\ pc' = "done"
       \/ /\ call.index >= call.env.scroll_count
          /\ UNCHANGED call
          /\ pc' = "s_ended"
    /\ UNCHANGED << config, runstate, urls_to_download, tasks, downloaded_count, variant >>

\* lines 533-538
ScrollJitter ==
    /\ pc = "s_jitter"
    /\ call' = IF JitterIn(variant, call.index)
               THEN [call EXCEPT !.out.jitters = @ \cup { call.index }]
               ELSE call
    /\ pc' = "s_check"
    /\ UNCHANGED << config, runstate, urls_to_download, tasks, downloaded_count, variant >>

\* lines 540-545: break, or the next value of i
ScrollCheckLimit ==
    /\ pc = "s_check"
    /\ IF ScrollBreaks(limit, Cardinality(image_urls))
       THEN /\ pc' = "s_ended"
            /\ UNCHANGED call
       ELSE /\ pc' = "s_loop"
            /\ call' = [call EXCEPT !.index = @ + 1]
    /\ UNCHANGED << config, runstate, urls_to_download, tasks, downloaded_count, variant >>

InitScroll ==
    /\ variant \in Variants
    /\ is_board = (variant = "board")
    /\ is_ad_search = FALSE
    /\ limit \in 0..MaxLimit
    /\ min_width = MicroFloor + 1
    /\ min_height = min_width
    /\ has_credentials = FALSE
    /\ pc = "s_loop"
    /\ start_collecting = TRUE
    /\ inside_search_results = FALSE
    /\ relevant_image_ids = {}
    /\ image_urls = {}
    /\ pending_text = {}
    /\ scroll_i = 0
    /\ pins_left = 0
    /\ urls_to_download = << >>
    /\ tasks = << >>
    /\ downloaded_count = 0
    /\ call \in [ index : {0}, state : {"scrolling"},
                   env : [ scroll_count : 0..MaxScrollCount ],
                   out : { [bottoms |-> {}, jitters |-> {}] } ]

NextScroll ==
    \/ /\ variant = "img"
       /\ \E r \in { x \in ImageResponses : x.status = 200 } : ObserveResponse(r)
    \/ /\ variant # "img"
       /\ \E r \in { x \in BasicResponses : x.rtype = "image" } : BasicHandleResponse(r)
    \/ ScrollToBottom
    \/ ScrollJitter
    \/ ScrollCheckLimit

SpecScroll == InitScroll /\ [][NextScroll]_vars

-----------------------------------------------------------------------------
\* InteractLoop, statement by statement: lines 202-208, _extract_images_from_pins
\* and _extract_images_from_search_results of the combined scraper, and
\* _extract_images_from_pins of the board scraper.  call.index is the loop
\* variable i, call.env.todo is len(pins_to_process), and call.out logs how many
\* feed items were clicked open, how many were handled to the end, and whether
\* len(image_urls) >= limit held when the last one had been handled.

\* mutant: every element found is processed
PinsToProcessAll(n, lim, k) == n

\* pin_elements[:min(len(pin_elements), self.limit * k)]: 575, 671, board 146
PinsToProcess(n, lim, k) == Min(n, lim * k)

InteractResponses == { r \in CollectResponses : r.rtype = "image" /\ r.status = 200 }

InteractFrame ==
    UNCHANGED << config, runstate, urls_to_download, tasks, downloaded_count, variant >>

\* combined scraper, lines 202-208; the board scraper always extracts (line 80)
InteractChoose ==
    /\ pc = "i_choose"
    /\ pc' = IF variant = "board" THEN "i_pins_query"
             ELSE IF Cardinality(image_urls) < limit * 2
                  THEN (IF is_board THEN "i_pins_query" ELSE "i_search_query")
                  ELSE "i_ended"
    /\ UNCHANGED call
    /\ InteractFrame

\* lines 641-673: no element found falls back to the generic extraction
InteractQuerySearch ==
    /\ pc = "i_search_query"
    /\ \E n \in 0..MaxFeedItems :
          /\ call' = [call EXCEPT !.index = 0, !.env.todo = PinsToProcess(n, limit, 3)]
          /\ pc' = IF n = 0 THEN "i_pins_query" ELSE "i_search_top"
    /\ InteractFrame

\* lines 676-696: the loop head, the over-collection check, the product check
\* and the click
InteractSearchTop ==
    /\ pc = "i_search_top"
    /\ \/ /\ call.index >= call.env.todo
          /\ UNCHANGED call
          /\ pc' = "i_ended"
       \/ /\ call.index < call.env.todo /\ EnoughFor(2)           \* 678-679
          /\ UNCHANGED call
          /\ pc' = "i_ended"
       \/ /\ call.index < call.env.todo /\ ~EnoughFor(2)          \* 683-689, 747-754
          /\ call' = [call EXCEPT !.index = @ + 1]
          /\ pc' = "i_search_top"
       \/ /\ call.index < call.env.todo /\ ~EnoughFor(2)          \* 694-696
          /\ call' = [call EXCEPT !.out.opened = @ + 1]
          /\ pc' = "i_search_modal"
    /\ InteractFrame

\* lines 698-745: the detail view appears and is closed, or it does not appear
InteractSearchModal ==
    /\ pc = "i_search_modal"
    /\ call' = [call EXCEPT !.index = @ + 1, !.out.handled = @ + 1,
                            !.out.enough = (limit # 0 /\ Cardinality(image_urls) >= limit)]
    /\ pc' = "i_search_top"
    /\ InteractFrame

\* lines 549-577, board scraper 141-148
InteractQueryPins ==
    /\ pc = "i_pins_query"
    /\ \E n \in 0..MaxFeedItems :
          /\ call' = [call EXCEPT !.index = 0, !.env.todo = PinsToProcess(n, limit, 2)]
          /\ pc' = IF n = 0 /\ variant = "img" THEN "i_ended" ELSE "i_pins_top"
    /\ InteractFrame

\* lines 580-584, board scraper 151-154: the loop head and the click
InteractPinsTop ==
    /\ pc = "i_pins_top"
    /\ \/ /\ call.index >= call.env.todo
          /\ UNCHANGED call
          /\ pc' = "i_ended"
       \/ /\ call.index < call.env.todo                          \* the click raises
          /\ call' = [call EXCEPT !.index = @ + 1]
          /\ pc' = "i_pins_top"
       \/ /\ call.index < call.env.todo
          /\ call' = [call EXCEPT !.out.opened = @ + 1]
          /\ pc' = "i_pins_modal"
    /\ InteractFrame

\* lines 586-634, board scraper 156-183
InteractPinsModal ==
    /\ pc = "i_pins_modal"
    /\ \/ /\ call' = [call EXCEPT !.index = @ + 1, !.out.handled = @ + 1,   \* 610-625
                                  !.out.enough = EnoughFor(1)]
          /\ pc' = IF EnoughFor(1) THEN "i_ended" ELSE "i_pins_top"
       \/ /\ call' = [call EXCEPT !.index = @ + 1, !.out.handled = @ + 1,   \* 603-608
                                  !.out.enough = EnoughFor(1)]
          /\ pc' = "i_pins_top"
    /\ InteractFrame

InitInteract ==
    /\ variant \in {"img", "board"}
    /\ is_board \in IF variant = "board" THEN {TRUE} ELSE BOOLEAN
    /\ is_ad_search = FALSE
    /\ limit \in 0..MaxLimit
    /\ min_width = MicroFloor + 1
    /\ min_height = min_width
    /\ has_credentials = FALSE
    /\ pc = "i_choose"
    /\ start_collecting = TRUE
    /\ inside_search_results = FALSE
    /\ relevant_image_ids = {}
    /\ image_urls = {}
    /\ pending_text = {}
    /\ scroll_i = 0
    /\ pins_left = 0
    /\ urls_to_download = << >>
    /\ tasks = << >>
    /\ downloaded_count = 0
    /\ call = [index |-> 0, state |-> "interacting", env |-> [todo |-> 0],
               out |-> [opened |-> 0, handled |-> 0, enough |-> FALSE]]

NextInteract ==
    \/ /\ variant = "img"
       /\ \E r \in InteractResponses : ObserveResponse(r)
    \/ /\ variant = "board"
       /\ \E r \in { x \in BasicResponses : x.rtype = "image" } : BasicHandleResponse(r)
    \/ InteractChoose
    \/ InteractQuerySearch
    \/ InteractSearchTop
    \/ InteractSearchModal
    \/ InteractQueryPins
    \/ InteractPinsTop
    \/ InteractPinsModal

SpecInteract == InitInteract /\ [][NextInteract]_vars

-----------------------------------------------------------------------------
\* The metadata branch of _handle_response of the basic and the board scraper
\* applied to one body holding one (address, width, height) triple.  call.env
\* is the triple, whether the body can be read, and the candidate set before.

MetaUrls ==
    { Url(EscapedHost, <<"originals">>, 1, "jpg"),
      Url(PinHost, <<"60x60", "icons">>, 0, "gif"),
      Url(OtherHost, <<"ab">>, 0, "svg") }

InitMeta ==
    /\ variant \in {"basic", "board"}
    /\ is_board = (variant = "board")
    /\ is_ad_search = FALSE
    /\ limit = 1
    /\ min_width \in MinDims
    /\ min_height \in MinDims
    /\ has_credentials = FALSE
    /\ pc = "m_read"
    /\ start_collecting = TRUE
    /\ inside_search_results = FALSE
    /\ relevant_image_ids = {}
    /\ call \in [ index : {1}, state : {"reading"},
                   env : [ url : MetaUrls, width : Dims, height : Dims,
                           readable : BOOLEAN,
                           before : { {}, { Url(PinHost, <<"originals">>, 0, "png") } } ],
                   out : { [resumed |-> FALSE] } ]
    /\ image_urls = call.env.before
    /\ pending_text = { [body |-> { MetaEntry(call.env.url, call.env.width, call.env.height) },
                         readable |-> call.env.readable] }
    /\ scroll_i = 0
    /\ pins_left = 0
    /\ urls_to_download = << >>
    /\ tasks = << >>
    /\ downloaded_count = 0

\* the handler suspended at lines 108 / 115 resumes
MetaResume ==
    /\ pc = "m_read"
    /\ \E t \in pending_text : BasicResumeText(t)

NextMeta == MetaResume

SpecMeta == InitMeta /\ [][NextMeta]_vars

-----------------------------------------------------------------------------
\* Finalize of the three scrapers, with every download task followed from its
\* first step to the moment the counting loop takes its result.  call.out.paths
\* holds, for every task that has begun, the pair of its index and its
\* destination path; call.out.files holds the paths at which a file exists.

\* the values of datetime.now().strftime("%Y%m%d%H%M%S") during one Finalize
Stamps == {0, 1}

\* mutant: the file name does not hold the index of the task
DestinationPathUnindexed(v, index, stamp) ==
    IF v = "img" THEN [name |-> "name", stamp |-> stamp, number |-> 0]
    ELSE [name |-> "name", stamp |-> 0, number |-> 0]

\* combined scraper lines 829-831: name_timestamp_index.jpg; basic scraper
\* lines 165-166 and board scraper lines 221-222: name_(index+1).jpg
DestinationPath(v, index, stamp) ==
    IF v = "img" THEN [name |-> "name", stamp |-> stamp, number |-> index]
    ELSE [name |-> "name", stamp |-> 0, number |-> index + 1]

\* the candidates a run can hold when Finalize starts
FinalizeCands(v) ==
    IF v = "img"
    THEN SUBSET { << Url(PinHost, <<"originals">>, 1, "jpg"), TRUE >>,
                  << Url(PinHost, <<"originals">>, 1, "jpg"), FALSE >>,
                  << Url(PinHost, <<"originals">>, 0, "jpg"), TRUE >> }
    ELSE SUBSET { Url(PinHost, <<"originals">>, 1, "jpg"),
                  Url(PinHost, <<"originals">>, 0, "png"),
                  Url(PinHost, <<"originals">>, 0, "jpg") }

PathOfTask(i) == (CHOOSE x \in call.out.paths : x[1] = i)[2]

Begun(i) == \E x \in call.out.paths : x[1] = i

InitFinalize ==
    /\ variant \in Variants
    /\ is_board = (variant = "board")
    /\ is_ad_search = FALSE
    /\ limit \in 0..MaxLimit
    /\ min_width = MicroFloor + 1
    /\ min_height = min_width
    /\ has_credentials = FALSE
    /\ pc = IF variant = "img" THEN "finalize" ELSE "b_finalize"
    /\ start_collecting = TRUE
    /\ inside_search_results = TRUE
    /\ relevant_image_ids = {}
    /\ image_urls \in FinalizeCands(variant)
    /\ pending_text = {}
    /\ scroll_i = 0
    /\ pins_left = 0
    /\ urls_to_download = << >>
    /\ tasks = << >>
    /\ downloaded_count = 0
    /\ call = [index |-> 0, state |-> "finalizing", env |-> [name |-> "name"],
               out |-> [paths |-> {}, files |-> {}]]

InDownload == pc \in {"download", "b_download"}

\* asyncio.as_completed schedules every coroutine; task i takes its first step
\* and fixes its destination path
BeginDownload(i) ==
    /\ InDownload
    /\ i \in 1..Len(tasks)
    /\ tasks[i] = "pending"
    /\ \E stamp \in (IF variant = "img" THEN Stamps ELSE {0}) :
          call' = [call EXCEPT !.out.paths =
                      @ \cup { << i, DestinationPath(variant, i - 1, stamp) >> }]
    /\ tasks' = [tasks EXCEPT ![i] = "running"]
    /\ UNCHANGED << config, pc, runstate, urls_to_download, downloaded_count, variant >>

\* _download_image of task i returns
EndDownload(i) ==
    /\ InDownload
    /\ i \in 1..Len(tasks)
    /\ tasks[i] = "running"
    /\ \E out \in (IF variant = "img" THEN ImgOutcomes[<<min_width, min_height>>]
                   ELSE BasicOutcomes[<<min_width, min_height>>]) :
          /\ tasks' = [tasks EXCEPT ![i] = IF out.result THEN "returned_true"
                                           ELSE "returned_false"]
          /\ call' = [call EXCEPT !.out.files =
                         IF out.file THEN @ \cup { PathOfTask(i) } ELSE @]
    /\ UNCHANGED << config, pc, runstate, urls_to_download, downloaded_count, variant >>

\* result = await task; if result: self.downloaded_count += 1
TakeCompleted(i) ==
    /\ InDownload
    /\ i \in 1..Len(tasks)
    /\ tasks[i] \in {"returned_true", "returned_false"}
    /\ tasks' = [tasks EXCEPT ![i] = IF tasks[i] = "returned_true" THEN "true" ELSE "false"]
    /\ downloaded_count' = IF tasks[i] = "returned_true" THEN downloaded_count + 1
                           ELSE downloaded_count
    /\ UNCHANGED << config, pc, runstate, urls_to_download, variant, call >>

\* the loop has taken every result: _download_images returns, the browser
\* closes and the run returns downloaded_count
FinalizeDone ==
    /\ InDownload
    /\ \A i \in 1..Len(tasks) : tasks[i] \in {"true", "false"}
    /\ pc' = "done"
    /\ UNCHANGED << config, runstate, finalstate >>

NextFinalize ==
    \/ DownloadImages
    \/ BasicDownloadImages
    \/ \E i \in 1..Len(tasks) : BeginDownload(i)
    \/ \E i \in 1..Len(tasks) : EndDownload(i)
    \/ \E i \in 1..Len(tasks) : TakeCompleted(i)
    \/ FinalizeDone

SpecFinalize == InitFinalize /\ [][NextFinalize]_vars

-----------------------------------------------------------------------------
\* Claims about the planner (checked under SpecPlan)

Planned == pc = "download"

RelevantCands == { c \in image_urls : IsRelevant(c) }
OtherCands == { c \in image_urls : ~IsRelevant(c) }
RelevantRefs == { UrlOf(c) : c \in RelevantCands }
OtherRefs == { UrlOf(c) : c \in OtherCands }
AllRefs == RelevantRefs \cup OtherRefs
PlannedRefs == Range(urls_to_download)

\* the tier ranking the specification states
TierScore(url) ==
    IF HasDir(url, "originals") THEN 5
    ELSE IF HasDir(url, "1200x") THEN 4
    ELSE IF HasDir(url, "736x") THEN 3
    ELSE IF HasDir(url, "474x") THEN 2
    ELSE IF HasDir(url, "236x") THEN 1
    ELSE 0

\* C4 as stated: for every candidate set, every limit, limit = 0 included, and
\* both modes, the planned list has at most limit entries.
C4_PlanWithinAnyLimit ==
    Planned => Len(urls_to_download) <= limit

\* C4 amended: for every limit >= 1 the planned list has at most limit entries
\* (limit = 0 is read by the code as "no limit").
C4_PlanWithinLimit ==
    (Planned /\ limit >= 1) => Len(urls_to_download) <= limit

C4_Witness ==
    /\ Planned /\ limit >= 1
    /\ Cardinality(AllRefs) > limit
    /\ Cardinality(RelevantCands) > limit
    /\ Len(urls_to_download) = limit

\* C5: not permissive and fewer than limit relevant candidates: the plan has
\* exactly min(limit, number of candidates) entries and holds every relevant one.
C5_FillUpToLimit ==
    (Planned /\ ~is_ad_search /\ Cardinality(RelevantCands) < limit) =>
        /\ Len(urls_to_download) = Min(limit, Cardinality(image_urls))
        /\ RelevantRefs \subseteq PlannedRefs
        /\ Cardinality({ i \in 1..Len(urls_to_download) :
                            urls_to_download[i] \notin RelevantRefs })
              <= limit - Cardinality(RelevantCands)

C5_Witness ==
    /\ Planned /\ ~is_ad_search /\ limit = 2
    /\ Cardinality(RelevantCands) = 1
    /\ Cardinality(OtherCands) = 2
    /\ Len(urls_to_download) = 2
    /\ RelevantRefs \subseteq PlannedRefs

\* C6 as stated: not permissive and fewer than limit relevant candidates: no
\* non-relevant candidate left out of the plan has a strictly higher tier score
\* than a non-relevant candidate that was included.
C6_FillByTier ==
    (Planned /\ ~is_ad_search /\ Cardinality(RelevantCands) < limit) =>
        \A x, y \in OtherRefs \ RelevantRefs :
            (x \notin PlannedRefs /\ y \in PlannedRefs) => TierScore(x) <= TierScore(y)

\* C7: not permissive: a reference that is not relevant is planned only if every
\* relevant reference is planned; with at least limit relevant candidates the
\* plan holds relevant references only.
C7_RelevantFirst ==
    (Planned /\ ~is_ad_search) =>
        /\ (Cardinality(RelevantCands) >= limit => PlannedRefs \subseteq RelevantRefs)
        /\ ((\E u \in PlannedRefs : u \notin RelevantRefs)
               => RelevantRefs \subseteq PlannedRefs)

\* scenario A: one relevant low-tier candidate, one non-relevant original, limit 1
C7_Witness ==
    /\ Planned /\ ~is_ad_search /\ limit = 1
    /\ \E r \in RelevantRefs : \E o \in OtherRefs \ RelevantRefs :
          /\ TierScore(o) > TierScore(r)
          /\ urls_to_download = << r >>

\* C8: the plan is ordered by tier score descending, and the references cut off
\* by the limit score no higher than the ones kept.
C8_OrderedByTier ==
    Planned =>
        /\ \A i, j \in 1..Len(urls_to_download) :
              i < j => TierScore(urls_to_download[i]) >= TierScore(urls_to_download[j])
        /\ LET pool == IF is_ad_search THEN AllRefs
                       ELSE IF Cardinality(RelevantCands) >= limit THEN RelevantRefs
                       ELSE PlannedRefs
           IN  \A x \in pool \ PlannedRefs : \A y \in PlannedRefs :
                  TierScore(x) <= TierScore(y)

C8_Witness ==
    /\ Planned /\ limit = 2 /\ Len(urls_to_download) = 2
    /\ (is_ad_search \/ Cardinality(RelevantCands) > limit)
    /\ TierScore(urls_to_download[1]) > TierScore(urls_to_download[2])
    /\ \E x \in AllRefs \ PlannedRefs : TierScore(x) < TierScore(urls_to_download[2])

-----------------------------------------------------------------------------
\* Claims about one fetch-and-verify call (checked under SpecVerify)

Returned == pc \in {"verified", "counted"}

Counted == pc = "counted"

\* the image was retrieved: success status, image content type, decodable bytes
RetrievedImage(e) == e.fetch = "ok" /\ e.ctype = "image" /\ e.mem = "ok"

\* the bytes reached the destination path and could be read back
Stored(e) == e.write = "ok" /\ e.disk = "ok"

MeetsExactlyOne(e) ==
    \/ e.w >= min_width /\ e.h < min_height
    \/ e.w < min_width /\ e.h >= min_height

\* the steps of the combined scraper's call that the environment e lets it reach
ReachedDecode(e) == e.fetch = "ok" /\ e.ctype = "image"
ReachedWrite(e) ==
    ReachedDecode(e) /\ ~(e.mem = "ok" /\ TooSmall(e.w, e.h, min_width, min_height))
ReachedReverify(e) == ReachedWrite(e) /\ e.write = "ok"

\* a step the call reached raised
StepRaised(e) ==
    \/ e.fetch = "raise"
    \/ ReachedDecode(e) /\ e.mem = "raise"
    \/ ReachedWrite(e) /\ e.write \in {"raise", "partial"}
    \/ ReachedReverify(e) /\ e.disk = "raise"

\* C1 as stated: in the combined scraper the count is incremented for a reference
\* only if it was retrieved (success status, image content type), its measured
\* dimensions passed the floor check, and no step of the call raised.
C1_CountedOnlyIfVerified ==
    (Counted /\ variant = "img" /\ downloaded_count > 0) =>
        /\ call.env.fetch = "ok" /\ call.env.ctype = "image"
        /\ ~TooSmall(call.env.w, call.env.h, min_width, min_height)
        /\ ~StepRaised(call.env)

\* C2 as stated: in the combined scraper a call in which a reached step raised
\* returns false and lets no exception out.
C2_ErrorsReportFalse ==
    (Returned /\ variant = "img" /\ StepRaised(call.env)) =>
        (~call.out.result /\ ~call.out.propagated)

Measured(e) == e.mem = "ok" \/ (ReachedReverify(e) /\ e.disk = "ok")

\* C11 as stated: in the combined scraper, a retrieved image measured with both
\* dimensions below the floors makes the call return false, and no file for it
\* exists at the destination path when the call returns.
C11_TooSmallLeavesNoFile ==
    (Returned /\ variant = "img" /\ ReachedDecode(call.env) /\ Measured(call.env)
        /\ TooSmall(call.env.w, call.env.h, min_width, min_height))
    => (~call.out.result /\ ~call.out.file)

FetchFailed(e) == e.fetch \in {"none", "status"}
NotAnImage(e) == e.fetch = "ok" /\ e.ctype # "image"

\* C12 as stated: in every scraper variant a non-success status, or status 200
\* with a content type that is not an image type, makes the call return false
\* and leaves no file at the destination path.
C12_RefusedEveryVariant ==
    (Returned /\ (FetchFailed(call.env) \/ NotAnImage(call.env)))
    => (~call.out.result /\ ~call.out.file)

\* C12 amended: a non-success status does so in every variant; a content type
\* that is not an image type does so in the combined scraper only.
C12_RefusedByStatusOrType ==
    /\ (Returned /\ FetchFailed(call.env)) => (~call.out.result /\ ~call.out.file)
    /\ (Returned /\ variant = "img" /\ NotAnImage(call.env))
          => (~call.out.result /\ ~call.out.file)

\* scenario D: status 200 with content type text/html, everything else in order
C12_Witness ==
    /\ Returned /\ variant = "img" /\ NotAnImage(call.env)
    /\ call.env.mem = "ok" /\ Stored(call.env)
    /\ ~TooSmall(call.env.w, call.env.h, min_width, min_height)
    /\ ~call.out.result /\ ~call.out.file

-----------------------------------------------------------------------------
\* Claims about the classifier and the normalizer (checked under SpecObserve)

Classified == pc \in {"classified", "converted", "converted_twice", "inserted", "reconverted"}
Converted == pc \in {"converted", "converted_twice", "inserted", "reconverted"}

\* some identifier of the signal set occurs in the observed address
SomeIdOccurs == \E id \in relevant_image_ids : call.env.url.pin = id

\* C13: in an ad search or a board request every image observation is classified
\* relevant, whatever the identifier set holds and whether or not the
\* inside-results flag is set.
C13_PermissiveAlwaysRelevant ==
    (Classified /\ (is_ad_search \/ is_board)) => call.out.relevant

\* an ad search inside the results, identifiers known, none of them in the address
C13_Witness ==
    /\ Classified /\ is_ad_search /\ ~is_board /\ inside_search_results
    /\ relevant_image_ids # {} /\ ~SomeIdOccurs
    /\ call.out.relevant

\* C14: in a query that is not an ad search, an observation made inside the
\* results is classified relevant exactly when an identifier of the signal set
\* occurs in its address; before the flag is set it is classified relevant.
C14_RelevantIffIdOccurs ==
    (Classified /\ ~is_ad_search /\ ~is_board) =>
        IF inside_search_results THEN call.out.relevant <=> SomeIdOccurs
        ELSE call.out.relevant

\* inside the results with no identifier known yet: not relevant
C14_Witness ==
    /\ Classified /\ ~is_ad_search /\ ~is_board /\ inside_search_results
    /\ relevant_image_ids = {}
    /\ ~call.out.relevant

\* C15: the normalizer is idempotent: applied to an address it returned, it
\* returns that address again.
C15_Idempotent ==
    pc = "converted_twice" => call.out.twice = call.out.high_res

\* an address with two resolution directories, changed by the first application
C15_Witness ==
    /\ pc = "converted_twice"
    /\ call.env.url.dirs = <<"236x", "736x">>
    /\ call.out.high_res # call.env.url
    /\ call.out.twice = call.out.high_res

AboveMicroFloor == min_width > MicroFloor \/ min_height > MicroFloor

\* C16 as stated: an address with a micro-thumbnail directory, whatever else it
\* holds, is refused when a minimum dimension exceeds 100.
C16_MicroAlwaysRejected ==
    (Converted /\ IsMicro(call.env.url) /\ AboveMicroFloor)
    => call.out.high_res = Rejected

\* C16 amended: such an address is refused unless it also holds the originals
\* directory, in which case it is returned unchanged.
C16_MicroRejectedUnlessOriginal ==
    (Converted /\ IsMicro(call.env.url) /\ AboveMicroFloor)
    => call.out.high_res =
          IF HasDir(call.env.url, "originals") THEN call.env.url ELSE Rejected

C16_Witness ==
    /\ Converted /\ AboveMicroFloor
    /\ call.env.url.dirs = <<"60x60", "236x">>
    /\ call.out.high_res = Rejected

TierNames == {"originals"} \cup MicroTiers \cup SizedDirs

\* the address has exactly one tier directory and it is an intermediate tier
OnlyIntermediateTier(url) ==
    \E i \in 1..Len(url.dirs) :
        /\ url.dirs[i] \in Range(ResolutionPatterns)
        /\ \A j \in 1..Len(url.dirs) : url.dirs[j] \in TierNames => j = i

\* C17: an address whose only tier directory is an intermediate tier is returned
\* with that directory replaced by originals and everything else unchanged, so
\* the result does not depend on which intermediate tier it was.
C17_IntermediateToOriginals ==
    (Converted /\ OnlyIntermediateTier(call.env.url)) =>
        call.out.high_res =
            Url(call.env.url.host,
                [i \in 1..Len(call.env.url.dirs) |->
                    IF call.env.url.dirs[i] \in Range(ResolutionPatterns)
                    THEN "originals" ELSE call.env.url.dirs[i]],
                call.env.url.pin, call.env.url.ext)

\* scenario C: .../236x/ab/... becomes .../originals/ab/...
C17_Witness ==
    /\ Converted
    /\ call.env.url.dirs = <<"236x", "ab">>
    /\ call.out.high_res.dirs = <<"originals", "ab">>

\* the observed address passes the micro-thumbnail check, the raster/tier shape
\* check, the normalizer and the denylist
PassesFilters ==
    /\ ~(IsMicro(call.env.url) /\ AboveMicroFloor)
    /\ \/ HasDir(call.env.url, "originals")
       \/ \E d \in Range(ResolutionPatterns) : HasDir(call.env.url, d)
       \/ call.env.url.host \in {PinHost, PlainHost}
    /\ call.env.url.ext \in {"jpg", "jpeg", "png", "webp"}
    /\ call.out.high_res # Rejected
    /\ is_ad_search \/ ~HasDir(call.env.url, "icons")

\* C23 as stated: an observation that passes the filters is always inserted,
\* tagged with the classifier's result, whether or not identifiers are known.
C23_AlwaysInserted ==
    (pc = "inserted" /\ PassesFilters) =>
        << call.out.high_res, call.out.relevant >> \in image_urls

\* C23 amended: such an observation is inserted tagged with the classifier's
\* result, unless it was classified not relevant while identifiers are known:
\* then it is dropped.
C23_InsertedUnlessUnrelated ==
    (pc = "inserted" /\ PassesFilters) =>
        IF ~call.out.relevant /\ relevant_image_ids # {}
        THEN image_urls = {}
        ELSE image_urls = { << call.out.high_res, call.out.relevant >> }

\* classified not relevant with no identifier known: inserted with the tag false
C23_Witness ==
    /\ pc = "inserted" /\ PassesFilters
    /\ ~call.out.relevant /\ relevant_image_ids = {}
    /\ call.env.url.dirs = <<"236x", "ab">>
    /\ image_urls = { << call.out.high_res, FALSE >> }

\* C32: in the combined scraper an image observation whose address holds a
\* micro-thumbnail directory (60x60 or 75x75) adds no candidate when a minimum
\* dimension exceeds 100, whatever the normalizer would return for the address
\* and for every mode, flag and identifier set.
C32_MicroNeverAdmitted ==
    (pc = "inserted" /\ IsMicro(call.env.url) /\ AboveMicroFloor) => image_urls = {}

\* an address with an originals and a micro directory, which the normalizer
\* returns unchanged, observed in an ad search: nothing was added
C32_Witness ==
    /\ pc = "inserted" /\ AboveMicroFloor
    /\ is_ad_search
    /\ call.env.url.dirs = <<"75x75", "originals">>
    /\ call.out.high_res = call.env.url
    /\ call.out.relevant
    /\ image_urls = {}

-----------------------------------------------------------------------------
\* Claims about a whole run of the combined scraper (checked under Spec)

\* C18 as stated: an error raised during Navigate or ScrollLoop ends only that
\* phase: no step taken in one of these two phases ends the run, the later
\* phases and Finalize still follow.
C18_ErrorEndsPhaseOnly ==
    [][(pc \in {"navigate", "scroll"}) => (pc' # "done")]_vars

\* C19: with every await of the driver returning, raising or timing out, every
\* run of start_scraping reaches Done, where it returns downloaded_count.
C19_EventuallyDone == <>(pc = "done")

\* a run that ended with candidates collected and nothing downloaded
C19_Witness ==
    /\ pc = "done"
    /\ image_urls # {}
    /\ downloaded_count = 0

\* the phase a driver position belongs to, numbered in the order of the
\* orchestrator's state machine: Init 0, Authenticate 1, Navigate 2,
\* SettleChrome 3, CaptureContextIds 4, ScrollLoop 5, InteractLoop 6,
\* Finalize 7, Done 8
PhaseOf(p) ==
    CASE p = "start" -> 0
      [] p = "login" -> 1
      [] p \in {"enable", "navigate"} -> 2
      [] p = "wait_content" -> 3
      [] p = "capture" -> 4
      [] p \in {"scroll", "extract"} -> 5
      [] p \in {"pins_query", "pins_loop", "search_query", "search_loop"} -> 6
      [] p \in {"finalize", "download"} -> 7
      [] p = "done" -> 8

\* C24: no step of a run goes back to an earlier phase, so the phases occur in
\* the stated order and none runs twice; Authenticate is entered only with
\* credentials; InteractLoop and Finalize are entered only from the end of
\* ScrollLoop or, for Finalize, from InteractLoop.
C24_PhaseOrder ==
    [][ /\ PhaseOf(pc') >= PhaseOf(pc)
        /\ (PhaseOf(pc') = 1) => has_credentials
        /\ (PhaseOf(pc') = 6 /\ PhaseOf(pc) # 6) => (pc = "extract")
        /\ (PhaseOf(pc') = 7 /\ PhaseOf(pc) # 7) => (pc = "extract" \/ PhaseOf(pc) = 6)
        /\ (pc' = "extract" /\ pc # "extract") => (pc = "scroll") ]_vars

\* a search run with credentials that went through the login, captured
\* identifiers inside the results and has planned a download in Finalize
C24_Witness ==
    /\ pc = "download"
    /\ has_credentials /\ ~is_board
    /\ inside_search_results
    /\ relevant_image_ids # {}
    /\ Len(urls_to_download) >= 1

\* C25: whatever the outcome of the login, the driver's next step from
\* Authenticate is to line 118, and from there it clears the set, enables
\* collecting and starts the navigation: no step from Authenticate ends the run.
C25_LoginNeverBlocks ==
    [][ /\ (pc = "login" /\ pc' # pc) => (pc' = "enable")
        /\ (pc = "enable" /\ pc' # pc) =>
              (pc' = "navigate" /\ start_collecting' /\ image_urls' = {}) ]_vars

\* a run with credentials at the navigation, collecting enabled
C25_Witness ==
    /\ has_credentials
    /\ pc = "navigate"
    /\ start_collecting
    /\ image_urls = {}

\* the number of download tasks created for reference u
AttemptsOf(u, plan) == Cardinality({ i \in 1..Len(plan) : plan[i] = u })

\* C30 as stated: Finalize creates exactly one download task for every planned
\* reference, each task is completed once, and the completion of one task
\* changes the result of no other task.
C30_EachReferenceOnce ==
    [][ /\ (pc # "download" /\ pc' = "download") =>
              /\ Len(tasks') = Len(urls_to_download')
              /\ \A u \in Range(urls_to_download') : AttemptsOf(u, urls_to_download') = 1
        /\ (pc = "download" /\ tasks' # tasks /\ pc' = "download") =>
              \E i \in 1..Len(tasks) :
                 /\ tasks[i] = "pending" /\ tasks'[i] # "pending"
                 /\ \A j \in 1..Len(tasks) : j # i => tasks'[j] = tasks[j]
        /\ (pc = "download" /\ pc' = "done") =>
              \A i \in 1..Len(tasks) : tasks[i] # "pending" ]_vars

\* C33: no step of a run removes an identifier from the signal set, and a step
\* that completes a body read whose identifiers are all present already
\* leaves the set as it was.
C33_IdentifiersOnlyGrow ==
    [][ /\ relevant_image_ids \subseteq relevant_image_ids'
        /\ \A ids \in pending_text \ pending_text' :
              ids \subseteq relevant_image_ids => UNCHANGED relevant_image_ids ]_vars

\* a search inside the results that knows the page's identifier while a body
\* read bearing the same identifier is still to complete
C33_Witness ==
    /\ pc = "search_loop"
    /\ start_collecting /\ inside_search_results
    /\ relevant_image_ids = PinIds
    /\ PinIds \in pending_text

\* C37: in an ad search every candidate of the set is tagged relevant at every
\* moment of the run, so the planner's other group is empty; the pool it builds
\* from both groups is the relevant group, and the plan is made of min(limit,
\* size of that group) of its references (all of them when limit is 0).
C37_PermissiveAllRelevant ==
    [][ is_ad_search =>
          /\ OtherCands' = {}
          /\ AllRefs' = RelevantRefs'
          /\ (pc = "finalize" /\ pc' = "download") =>
                /\ PlannedRefs' \subseteq RelevantRefs
                /\ Len(urls_to_download') =
                      IF limit = 0 THEN Cardinality(RelevantRefs)
                      ELSE Min(limit, Cardinality(RelevantRefs)) ]_vars

\* an ad search inside the results that knows the page's identifier and has
\* planned a reference in which that identifier does not occur
C37_Witness ==
    /\ is_ad_search /\ ~is_board
    /\ pc = "download"
    /\ inside_search_results
    /\ relevant_image_ids = PinIds
    /\ \E i \in 1..Len(urls_to_download) :
          /\ urls_to_download[i].pin \notin relevant_image_ids
          /\ << urls_to_download[i], TRUE >> \in image_urls

\* C38: the planning step takes its references from the candidate set as it is
\* at that moment; while the downloads are in progress no step changes the
\* planned list or the number of tasks, whatever the handlers insert; and once
\* collecting is enabled no step removes a candidate from the set.
C38_PlanIsSnapshot ==
    [][ /\ (pc = "finalize" /\ pc' = "download") =>
              /\ Range(urls_to_download') \subseteq AllRefs
              /\ image_urls' = image_urls
        /\ (pc = "download" /\ pc' = "download") =>
              /\ urls_to_download' = urls_to_download
              /\ Len(tasks') = Len(tasks)
        /\ start_collecting => image_urls \subseteq image_urls' ]_vars

\* limit 2 and a plan of one reference, already downloaded and counted, while
\* the set holds two candidates: the second was inserted after the planning
C38_Witness ==
    /\ pc = "download" /\ limit = 2
    /\ Len(urls_to_download) = 1
    /\ downloaded_count = 1
    /\ Cardinality(image_urls) = 2
    /\ \E c \in image_urls : UrlOf(c) \notin Range(urls_to_download)

\* C20 as stated (checked under SpecEnable): a response that arrived while
\* collecting was not enabled contributes no candidate and no identifier,
\* whenever its handler task runs.
C20_NothingFromBeforeEnable ==
    (call.index = 1 /\ ~call.env.collecting) =>
        (image_urls = {} /\ relevant_image_ids = {})

\* C3 as stated: the candidate set is keyed by reference: at every moment of a
\* run each reference occurs in at most one candidate, so it never carries two
\* relevance values.
C3_KeyedByReference ==
    \A c, d \in image_urls : UrlOf(c) = UrlOf(d) => c = d

\* C9 as stated: the planned download list of a run holds each reference at
\* most once.
C9_PlanWithoutRepeats ==
    pc = "download" =>
        \A i, j \in 1..Len(urls_to_download) :
            i # j => urls_to_download[i] # urls_to_download[j]

-----------------------------------------------------------------------------
\* Claims about the collector (checked under SpecCollect)

AtCeiling == Cardinality(image_urls) >= 3 * limit

-----------------------------------------------------------------------------
\* Claims about the basic and the board scraper (checked under SpecBasic)

\* C22 as stated, for the board scraper: the timeout of a wait-for-element step
\* (the pin grid wait after the navigation, the detail view wait of a feed item)
\* does not end the run: the phases up to Finalize still follow.
C22_TimeoutIsNotFound ==
    [][ (variant = "board" /\ pc \in {"b_wait", "b_pins_loop"}) => (pc' # "done") ]_vars

\* C35 as stated: in the basic and the board scraper with limit >= 1 the
\* candidate set never holds more than limit addresses, whatever handlers were
\* suspended in a body read when the limit was reached.
C35_SetWithinLimit ==
    (variant \in {"basic", "board"} /\ limit >= 1) => Cardinality(image_urls) <= limit

-----------------------------------------------------------------------------
\* Claims about the scroll loop (checked under SpecScroll)

\* the iterations whose secondary-scroll statement has been passed
PastJitter == { i \in call.out.bottoms : i < call.index \/ pc \in {"s_check", "s_ended"} }

\* at most scroll_count iterations scroll to the bottom, and with limit >= 1 the
\* step from a limit check that finds len(candidates) >= limit ends the loop,
\* after which nothing is scrolled
ScrollBounded ==
    /\ Cardinality(call.out.bottoms') <= call.env.scroll_count
    /\ (pc = "s_check" /\ pc' # pc /\ limit >= 1 /\ Cardinality(image_urls) >= limit)
          => (pc' = "s_ended")
    /\ (pc = "s_ended") => (pc' = "s_ended" /\ call' = call)

\* C26 as stated, for the scroll loop of every scraper: the loop is bounded as
\* above and the secondary scroll is made exactly in the iterations with odd
\* zero-based index.
C26_JitterInOddIterations ==
    [][ /\ ScrollBounded
        /\ call.out.jitters' = { i \in PastJitter' : i % 2 = 1 } ]_vars

\* C26 amended: the loop is bounded as above in every scraper; the secondary
\* scroll is made exactly in the iterations with odd zero-based index in the
\* combined scraper and never in the basic and the board scraper.
C26_JitterInOddCombined ==
    [][ /\ ScrollBounded
        /\ call.out.jitters' =
              IF variant = "img" THEN { i \in PastJitter' : i % 2 = 1 } ELSE {} ]_vars

\* the combined scraper left the loop by the limit check of iteration 1 of 3,
\* having made the secondary scroll in iteration 1 and not in iteration 0
C26_Witness ==
    /\ variant = "img" /\ limit >= 1
    /\ pc = "s_ended"
    /\ call.env.scroll_count = 3
    /\ call.out.bottoms = {0, 1}
    /\ call.out.jitters = {1}
    /\ Cardinality(image_urls) >= limit

-----------------------------------------------------------------------------
\* Claims about InteractLoop (checked under SpecInteract)

\* C27 as stated: once an item has been handled (opened and closed, or skipped
\* for want of a detail view) with len(candidates) >= limit at that moment, no
\* further feed item is opened, in the collection and in the search variant.
C27_StopsAtLimit ==
    [][ (call.out.handled >= 1 /\ call.out.enough)
           => (call.out.opened' = call.out.opened) ]_vars

\* C28: in one run at most 2*limit feed items are opened for a collection
\* request and at most 3*limit for a search request, the items opened after the
\* fallback to the generic extraction included.
C28_OpenedWithinBudget ==
    call.out.opened <= (IF is_board THEN 2 ELSE 3) * limit

\* a search with limit 1 that found four feed items and opened three of them
C28_Witness ==
    /\ variant = "img" /\ ~is_board /\ limit = 1
    /\ pc = "i_ended"
    /\ call.out.opened = 3
    /\ call.out.handled = 3

-----------------------------------------------------------------------------
\* Claims about the metadata branch (checked under SpecMeta)

MetaHandled == pc = "m_read" /\ pending_text = {}

\* C29: in the basic and the board scraper the address of a metadata triple is
\* added exactly when the body could be read and the stated width and height
\* both reach the minimums, whatever its tier, path or file type; otherwise
\* the candidate set is as it was before the exchange.
C29_AdmittedIffBothFloors ==
    MetaHandled =>
        image_urls =
            call.env.before \cup
            (IF /\ call.env.readable
                /\ call.env.width >= min_width
                /\ call.env.height >= min_height
             THEN { Unescape(call.env.url) } ELSE {})

\* a micro-thumbnail gif under /icons/ with both stated dimensions at the
\* minimums is admitted
C29_Witness ==
    /\ MetaHandled
    /\ call.env.url = Url(PinHost, <<"60x60", "icons">>, 0, "gif")
    /\ call.env.width = min_width /\ call.env.height = min_height
    /\ call.env.url \in image_urls

-----------------------------------------------------------------------------
\* Claims about Finalize (checked under SpecFinalize)

BegunTasks == { i \in 1..Len(tasks) : Begun(i) }

TrueTasks(ts) == { i \in 1..Len(ts) : ts[i] = "true" }

\* C31: within one Finalize any two download tasks have different destination
\* paths; the counter changes only when the counting loop takes one result
\* true, and then by one; so at every moment it equals the number of results
\* true taken so far, whatever the order of completion, and at the end of the
\* run it equals the number of planned entries whose call returned true, which
\* is at most the length of the plan.
C31_CountedOncePerTask ==
    [][ /\ \A i, j \in BegunTasks' : i # j => PathOfTask(i)' # PathOfTask(j)'
        /\ (downloaded_count' # downloaded_count) =>
              /\ downloaded_count' = downloaded_count + 1
              /\ \E i \in 1..Len(tasks) :
                    /\ tasks[i] = "returned_true" /\ tasks'[i] = "true"
                    /\ \A j \in 1..Len(tasks) : j # i => tasks'[j] = tasks[j]
        /\ (\E i \in 1..Len(tasks) : tasks[i] = "returned_true" /\ tasks'[i] # tasks[i])
              => downloaded_count' = downloaded_count + 1
        /\ downloaded_count' = Cardinality(TrueTasks(tasks'))
        /\ downloaded_count' <= Len(urls_to_download')
        /\ (pc' = "done") => \A i \in 1..Len(tasks') : tasks'[i] \in {"true", "false"} ]_vars

\* the combined scraper with two tasks begun in the same second: the second
\* has returned true and been counted while the first is still running
C31_Witness ==
    /\ variant = "img" /\ pc = "download"
    /\ tasks = << "running", "true" >>
    /\ downloaded_count = 1
    /\ PathOfTask(1).stamp = PathOfTask(2).stamp
    /\ PathOfTask(2) \in call.out.files

\* the planned entries the run counted, and the ones whose file is on disk
CountedTasks == { i \in 1..Len(tasks) : tasks[i] = "true" }
StoredTasks == { i \in 1..Len(tasks) : Begun(i) /\ PathOfTask(i) \in call.out.files }

\* C36 as stated: when a run ends, a planned reference was counted if and only
\* if its file is on disk, so the reported count is the number of files that
\* Finalize left in the output directory, in every scraper variant.
C36_CountEqualsFiles ==
    pc = "done" =>
        /\ CountedTasks = StoredTasks
        /\ downloaded_count = Cardinality(call.out.files)

====
